---- MODULE Spec2Model ----
(***************************************************************************)
(* A model of iocage's fetch module (iocage/lib/ioc_fetch.py, class        *)
(* IOCFetch): the release fetch with its download / verify / redownload    *)
(* sequence, the archive installer, and the plugin provisioner.            *)
(*                                                                         *)
(* The specifications share the variables:                                 *)
(*   Spec         fetch_release over the HTTP and FTP backends             *)
(*   SpecExtract  fetch_extract on one archive                             *)
(*   SpecPlugin   fetch_plugin                                             *)
(*   SpecLocal    fetch_release from a local directory                     *)
(*   SpecSelect   the choice of the backend and of the release             *)
(*   SpecListing  the list of releases a backend shows                     *)
(*   SpecMerge    the property list of __fetch_plugin_props__              *)
(*   SpecUpdate   fetch_update                                             *)
(* A specification leaves the variables of the others at their idle        *)
(* values.                                                                 *)
(***************************************************************************)
EXTENDS Integers, Sequences, FiniteSets, TLC

\* Number of fetch_release invocations made, one after the other, on the
\* same datasets.
MaxFetches == 2

\* Longest archive (number of members) given to fetch_extract.
MaxMembers == 2

\* Largest value of fetch_plugin's num argument.
MaxNum == 2

VARIABLES
    \* ---- IOCFetch object -------------------------------------------------
    args,        \* constructor arguments: [server, http, hardened, update]
    server,      \* self.server
    http,        \* self.http
    hardened,    \* self.hardened
    files,       \* self.files
    \* ---- datasets --------------------------------------------------------
    dlExists,    \* <iocroot>/download/<release> is a directory
    disk,        \* the files of the download dataset: name -> content
    relExists,   \* <iocroot>/releases/<release>/root is a directory
    \* ---- position in fetch_http_release / fetch_ftp_release ---------------
    pc,          \* idle, download, dl, check, chk, update, done, error
    pass,        \* the missing / _missing argument: FALSE first, TRUE on retry
    list,        \* the _list argument of fetch_download and __fetch_check__
    i,           \* loop index in fetch_download and __fetch_check__
    missing,     \* the list __fetch_check__ builds and returns
    error,       \* the exception that ended the fetch, "" if none
    \* ---- what this fetch_release call has done so far ---------------------
    runs,        \* fetch_release calls started so far
    net,         \* kinds of network request issued
    dlCount,     \* per file: downloads started
    extracted,   \* per file: fetch_extract calls
    failCount,   \* per file: verification passes that found it absent or wrong
    goodAtEntry, \* the dataset matched the manifest when the last pass began
    startGood,   \* the dataset existed and matched when fetch_release began
    updateRan,   \* fetch_update was called
    hist,        \* how the run began and what the server has delivered
    \* ---- fetch_extract on one archive -------------------------------------
    xpc, tar, fs, member, removed, written,
    \* ---- fetch_plugin -----------------------------------------------------
    ppc, plugin, jail, pout,
    \* ---- fetch_release from a local directory ----------------------------
    lpc,         \* position in the _file branch of fetch_release
    lsrc,        \* the call: root_dir, release, the source directory
    lmade,       \* datasets this call has created
    ldel,        \* datasets this call has deleted
    \* ---- release selection ------------------------------------------------
    spc,         \* position in fetch_release with no release named
    sin,         \* the call: arguments, listing, typed input, host kernel
    srel,        \* self.release
    shard,       \* self.hardened
    strans,      \* the backend in use: none, http, ftp, file
    srdir,       \* rdir has been assigned
    serr,        \* the exception or exit that ended the call
    \* ---- the release listing ----------------------------------------------
    kpc,         \* position: start, shown
    kin,         \* the backend and what the server returns
    kout,        \* the list shown and given to __fetch_validate_release__
    \* ---- __fetch_plugin_props__' property list ---------------------------
    mpc,         \* position: start, returned, raised
    mcall,       \* the caller's props and the descriptor's properties
    mout,        \* the list returned
    \* ---- fetch_update ------------------------------------------------------
    upc,         \* position in fetch_update
    ucall,       \* the call: cli, and what the new root holds
    umnt,        \* devfs is mounted on the new root
    ulog         \* what the call has done, in order

fetchVars == <<args, server, http, hardened, files, dlExists, disk, relExists,
               pc, pass, list, i, missing, error, runs, net, dlCount,
               extracted, failCount, goodAtEntry, startGood, updateRan,
               hist>>
extractVars == <<xpc, tar, fs, member, removed, written>>
pluginVars == <<ppc, plugin, jail, pout>>
localVars == <<lpc, lsrc, lmade, ldel>>
selectVars == <<spc, sin, srel, shard, strans, srdir, serr>>
listVars == <<kpc, kin, kout>>
mergeVars == <<mpc, mcall, mout>>
updateVars == <<upc, ucall, umnt, ulog>>
moreVars == <<listVars, mergeVars, updateVars>>
restVars == <<localVars, selectVars, moreVars>>
vars == <<fetchVars, extractVars, pluginVars, restVars>>

Range(s) == {s[k] : k \in 1..Len(s)}

(***************************************************************************)
(* logit: a message of level EXCEPTION ends the operation with an error,   *)
(* every other level only reports.                                         *)
(***************************************************************************)
logit_raises(level) == level = "EXCEPTION"

(***************************************************************************)
(*                          THE RELEASE FETCH                              *)
(***************************************************************************)

\* The files argument's default.
Files == <<"MANIFEST", "base.txz", "lib32.txz", "doc.txz">>
Archives == {"base.txz", "lib32.txz", "doc.txz"}

DefaultServer == "ftp.freebsd.org"
CustomServer == "mirror.example.org"

\* Archive contents: c1 is what the manifest describes, c0 is anything else.
Contents == {"c0", "c1"}

\* hashlib.sha256 over the file's blocks: one digest per content.
Sha256(c) == IF c = "c1" THEN "d1" ELSE "d0"

\* MANIFEST contents: the full manifest, one without a line for doc.txz, and
\* the empty file.
Manifests == {"m_full", "m_nodoc", "m_empty"}

\* The hashes dictionary __fetch_check__ parses from MANIFEST (name -> digest);
\* an absent MANIFEST leaves it empty.
Hashes(m) ==
    CASE m = "m_full"  -> [f \in Archives |-> "d1"]
      [] m = "m_nodoc" -> [f \in {"base.txz", "lib32.txz"} |-> "d1"]
      [] OTHER         -> [f \in {} |-> "d1"]

\* The files __fetch_check__ verifies: self.files without MANIFEST and, for
\* the hardened lineage, without lib32.txz.
Verified(fs_, hard) ==
    {f \in Range(fs_) : f # "MANIFEST" /\ ~(hard /\ f = "lib32.txz")}

\* One file against the manifest, as the body of the try block does it.
Verify(f, d) ==
    IF d[f] = "absent" THEN "notfound"
    ELSE IF f \notin DOMAIN Hashes(d["MANIFEST"]) THEN "keyerror"
    ELSE IF Hashes(d["MANIFEST"])[f] # Sha256(d[f]) THEN "mismatch"
    ELSE "ok"

\* The download dataset exists, holds MANIFEST, and every file that
\* __fetch_check__ verifies is present with the digest of its manifest line.
DatasetMatches(ex, d, fs_, hard) ==
    /\ ex
    /\ d["MANIFEST"] # "absent"
    /\ \A f \in Verified(fs_, hard) : Verify(f, d) = "ok"

\* __init__: hardened forces the HTTP backend.
InitHttp(a) == a.http \/ a.hardened

\* fetch_http_release rewrites self.server before the index request.
HttpServer(s, hard) ==
    IF s = DefaultServer
    THEN IF hard THEN "http://jenkins.hardenedbsd.org"
                 ELSE "https://download.freebsd.org"
    ELSE "http://" \o s

\* The hardened branch reads rdir, which is assigned only for the default
\* server.
RdirBound(s, hard) == hard => s = DefaultServer

\* fetch_download downloads on a fresh dataset or when asked for the missing.
AlwaysDownload(miss, fresh) == TRUE
OnlyWhenMissing(miss, fresh) == miss
NeedsDownload(miss, fresh) == miss \/ fresh

\* __fetch_check__ fetches MANIFEST again only from the default servers.
RefetchEvenIfPresent(isFtp, s, present) ==
    \/ isFtp /\ s = "ftp.freebsd.org"
    \/ ~isFtp /\ s = "https://download.freebsd.org"
ManifestRefetch(isFtp, s, present) ==
    /\ ~present
    /\ \/ isFtp /\ s = "ftp.freebsd.org"
       \/ ~isFtp /\ s = "https://download.freebsd.org"

\* What __fetch_check__ does with a file that is absent or has the wrong
\* digest: put it on the missing list in the first pass, give up in the second.
AlwaysRedownload(miss) == "redownload"
OnFailedVerification(miss) == IF ~miss THEN "redownload" ELSE "fatal"

\* fetch_http_release runs fetch_update unless hardened; fetch_ftp_release
\* runs it when self.update is set.
RunsUpdate(isHttp, hard, upd) == IF isHttp THEN ~hard ELSE upd

\* fetch_download's HTTP loop passes over lib32.txz for the hardened
\* lineage; its FTP loop passes over nothing.
download_skips(isHttp, hard, f) == isHttp /\ hard /\ f = "lib32.txz"

\* __fetch_check__ hashes a file only when it is in the _list it was given.
hashes_every_file(f, _list) == TRUE
is_listed(f, _list) == f \in Range(_list)

\* What a download has to deliver to match the manifest.
Matching(r) == r \in {"c1", "m_full"}

\* Before a run: nothing known of the dataset, nothing requested yet.
\*   existed    the download dataset was there when fetch_release began
\*   manifest0  the MANIFEST it held then
\*   bad        a request failed, or delivered a file that does not match
\*   refetch    the run before this one ended without an error
\*   compared   the files whose digest the second pass compared
\*   verified   the files whose digest was compared and found equal
NoHist ==
    [existed |-> FALSE, manifest0 |-> "absent", bad |-> FALSE,
     refetch |-> FALSE, compared |-> {}, verified |-> {}]

NoFile == [f \in Range(Files) |-> "absent"]
Zero == [f \in Range(Files) |-> 0]

\* A new IOCFetch object for an explicitly named release, and the start of a
\* fetch_release call on it.
NewObject(a) ==
    /\ server' = a.server
    /\ http' = InitHttp(a)
    /\ hardened' = a.hardened
    /\ files' = Files
    /\ pc' = "idle"
    /\ pass' = FALSE
    /\ list' = <<>>
    /\ i' = 0
    /\ missing' = <<>>
    /\ error' = ""
    /\ net' = {}
    /\ dlCount' = Zero
    /\ extracted' = Zero
    /\ failCount' = Zero
    /\ goodAtEntry' = FALSE
    /\ startGood' = FALSE
    /\ updateRan' = FALSE
    /\ hist' = [NoHist EXCEPT !.refetch = (pc = "done")]

ExtractIdle ==
    /\ xpc = "off" /\ tar = <<>> /\ fs = {} /\ member = <<>>
    /\ removed = {} /\ written = {}

PluginIdle ==
    /\ ppc = "off" /\ plugin = <<>> /\ jail = "none" /\ pout = <<>>

LocalIdle ==
    /\ lpc = "off" /\ lsrc = <<>> /\ lmade = {} /\ ldel = {}

SelectIdle ==
    /\ spc = "off" /\ sin = <<>> /\ srel = <<>> /\ shard = FALSE
    /\ strans = "none" /\ srdir = FALSE /\ serr = ""

ListingIdle ==
    /\ kpc = "off" /\ kin = <<>> /\ kout = <<>>

MergeIdle ==
    /\ mpc = "off" /\ mcall = <<>> /\ mout = <<>>

UpdateIdle ==
    /\ upc = "off" /\ ucall = <<>> /\ umnt = FALSE /\ ulog = <<>>

Init ==
    /\ args \in [server : {DefaultServer, CustomServer}, http : BOOLEAN,
                 hardened : BOOLEAN, update : BOOLEAN]
    /\ server = args.server
    /\ http = InitHttp(args)
    /\ hardened = args.hardened
    /\ files = Files
    /\ dlExists \in BOOLEAN
    /\ disk \in [Range(Files) -> Contents \cup Manifests \cup {"absent"}]
    /\ disk["MANIFEST"] \in Manifests \cup {"absent"}
    /\ \A f \in Archives : disk[f] \in Contents \cup {"absent"}
    /\ ~dlExists => disk = NoFile
    /\ relExists \in BOOLEAN
    /\ ~dlExists => ~relExists
    /\ pc = "idle" /\ pass = FALSE /\ list = <<>> /\ i = 0
    /\ missing = <<>> /\ error = ""
    /\ runs = 0 /\ net = {} /\ dlCount = Zero /\ extracted = Zero
    /\ failCount = Zero /\ goodAtEntry = FALSE /\ startGood = FALSE
    /\ updateRan = FALSE
    /\ hist = NoHist
    /\ ExtractIdle
    /\ PluginIdle
    /\ LocalIdle
    /\ SelectIdle
    /\ ListingIdle
    /\ MergeIdle
    /\ UpdateIdle

Raise(e) == pc' = "error" /\ error' = e

\* fetch_release up to the first fetch_download call: the EOL page, then the
\* index request (HTTP) or the connection and cwd (FTP).
fetch_release ==
    /\ pc = "idle" /\ runs < MaxFetches
    /\ runs' = runs + 1
    /\ startGood' = DatasetMatches(dlExists, disk, files, hardened)
    /\ \E eolverify \in BOOLEAN, ok \in BOOLEAN :
         LET eolreq == IF eolverify THEN {"eol"} ELSE {} IN
         /\ hist' = [existed |-> dlExists, manifest0 |-> disk["MANIFEST"],
                     bad |-> ~ok /\ RdirBound(server, hardened),
                     refetch |-> hist.refetch, compared |-> {},
                     verified |-> {}]
         /\ IF http
            THEN IF ~RdirBound(server, hardened)
                 THEN /\ Raise("UnboundLocalError")
                      /\ net' = net \cup eolreq
                      /\ UNCHANGED <<server, list>>
                 ELSE /\ server' = HttpServer(server, hardened)
                      /\ net' = net \cup eolreq \cup {"index"}
                      /\ IF ok
                         THEN pc' = "download" /\ list' = files
                              /\ UNCHANGED error
                         ELSE Raise("HTTPError") /\ UNCHANGED list
            ELSE /\ net' = net \cup eolreq \cup {"ftp"}
                 /\ UNCHANGED server
                 /\ IF ok
                    THEN pc' = "download" /\ list' = files /\ UNCHANGED error
                    ELSE Raise("was not found!") /\ UNCHANGED list
    /\ UNCHANGED <<args, http, hardened, files, dlExists, disk, relExists,
                   pass, i, missing, dlCount, extracted, failCount,
                   goodAtEntry, updateRan, extractVars, pluginVars, restVars>>

\* fetch_download, before its loop: create the dataset when absent, and
\* download only then or when called for the missing files.
fetch_download ==
    /\ pc = "download"
    /\ dlExists' = TRUE
    /\ IF NeedsDownload(pass, ~dlExists)
       THEN pc' = "dl" /\ i' = 1
       ELSE pc' = "check" /\ i' = 0
    /\ UNCHANGED <<args, server, http, hardened, files, disk, relExists,
                   pass, list, missing, error, runs, net, dlCount, extracted,
                   failCount, goodAtEntry, startGood, updateRan, hist,
                   extractVars, pluginVars, restVars>>

\* One iteration of fetch_download's HTTP loop.
download_http ==
    /\ pc = "dl" /\ http /\ i <= Len(list)
    /\ LET f == list[i] IN
       IF download_skips(http, hardened, f)
       THEN /\ i' = i + 1
            /\ UNCHANGED <<disk, pc, error, net, dlCount, hist>>
       ELSE /\ net' = net \cup {"file"}
            /\ dlCount' = [dlCount EXCEPT ![f] = @ + 1]
            /\ \E r \in {"HTTPError"} \cup
                        (IF f = "MANIFEST" THEN {"m_full", "m_nodoc"}
                                           ELSE Contents) :
                 /\ hist' = [hist EXCEPT !.bad = @ \/ ~Matching(r)]
                 /\ IF r = "HTTPError"
                    THEN Raise(r) /\ UNCHANGED <<disk, i>>
                    ELSE /\ disk' = [disk EXCEPT ![f] = r]
                         /\ i' = i + 1
                         /\ UNCHANGED <<pc, error>>
    /\ UNCHANGED <<args, server, http, hardened, files, dlExists, relExists,
                   pass, list, missing, runs, extracted, failCount,
                   goodAtEntry, startGood, updateRan, extractVars, pluginVars, restVars>>

\* One iteration of fetch_download's FTP loop.
download_ftp ==
    /\ pc = "dl" /\ ~http /\ i <= Len(list)
    /\ net' = net \cup {"ftp"}
    /\ LET f == list[i] IN
       \E r \in {"error_perm"} \cup
                (IF f = "MANIFEST" THEN {"m_full", "m_nodoc"} ELSE Contents) :
         /\ hist' = [hist EXCEPT !.bad = @ \/ ~Matching(r)]
         /\ IF r = "error_perm"
            THEN IF f # "base.txz" /\ f # "MANIFEST"
                 THEN /\ files' = SelectSeq(list, LAMBDA x : x # f)
                      /\ i' = i + 1
                      /\ UNCHANGED <<disk, pc, error, dlCount>>
                 ELSE /\ Raise(f \o " is required!")
                      /\ UNCHANGED <<files, disk, i, dlCount>>
            ELSE /\ disk' = [disk EXCEPT ![f] = r]
                 /\ dlCount' = [dlCount EXCEPT ![f] = @ + 1]
                 /\ i' = i + 1
                 /\ UNCHANGED <<files, pc, error>>
    /\ UNCHANGED <<args, server, http, hardened, dlExists, relExists,
                   pass, list, missing, runs, extracted, failCount,
                   goodAtEntry, startGood, updateRan, extractVars, pluginVars, restVars>>

\* __fetch_check__ up to its loop over self.files: the MANIFEST is fetched again
\* when absent (default servers only), then parsed.
fetch_check ==
    /\ pc = "check" \/ (pc = "dl" /\ i > Len(list))
    /\ goodAtEntry' = DatasetMatches(dlExists, disk, files, hardened)
    /\ IF ~dlExists
       THEN /\ pc' = "chk" /\ i' = Len(files) + 1 /\ missing' = <<>>
            /\ UNCHANGED <<disk, net, dlCount, error, hist>>
       ELSE IF ManifestRefetch(~http, server, disk["MANIFEST"] # "absent")
       THEN /\ net' = net \cup {"manifest"}
            /\ dlCount' = [dlCount EXCEPT !["MANIFEST"] = @ + 1]
            /\ \E r \in {"error", "m_full", "m_nodoc"} :
                 /\ hist' = [hist EXCEPT !.bad = @ \/ ~Matching(r)]
                 /\ IF r = "error"
                    THEN /\ Raise(IF http THEN "HTTPError" ELSE "error_perm")
                         /\ disk' = IF http THEN disk
                                    ELSE [disk EXCEPT !["MANIFEST"] = "m_empty"]
                         /\ UNCHANGED <<i, missing>>
                    ELSE /\ disk' = [disk EXCEPT !["MANIFEST"] = r]
                         /\ pc' = "chk" /\ i' = 1 /\ missing' = <<>>
                         /\ UNCHANGED error
       ELSE /\ pc' = "chk" /\ i' = 1
            /\ missing' = IF disk["MANIFEST"] = "absent"
                          THEN <<"MANIFEST">> ELSE <<>>
            /\ UNCHANGED <<disk, net, dlCount, error, hist>>
    /\ UNCHANGED <<args, server, http, hardened, files, dlExists, relExists,
                   pass, list, runs, extracted, failCount, startGood,
                   updateRan, extractVars, pluginVars, restVars>>

\* One iteration of __fetch_check__'s loop over self.files: verify the file
\* when it is in _list, then extract it when nothing is missing so far.
fetch_check_file ==
    /\ pc = "chk" /\ i <= Len(files)
    /\ LET f == files[i]
           hashed == is_listed(f, list)
           verdict == IF hashed THEN Verify(f, disk) ELSE "ok"
           seen == [hist EXCEPT
                       !.compared = IF /\ hashed /\ pass
                                       /\ verdict \in {"ok", "mismatch"}
                                    THEN @ \cup {f} ELSE @,
                       !.verified = IF hashed /\ verdict = "ok"
                                    THEN @ \cup {f} ELSE @]
       IN
       IF f = "MANIFEST" \/ (hardened /\ f = "lib32.txz")
       THEN /\ i' = i + 1
            /\ UNCHANGED <<pc, error, missing, failCount, extracted,
                           relExists, hist>>
       ELSE /\ hist' = seen
            /\ IF verdict = "keyerror"
               THEN /\ Raise("KeyError")
                    /\ UNCHANGED <<i, missing, failCount, extracted,
                                   relExists>>
               ELSE IF verdict \in {"notfound", "mismatch"}
               THEN /\ failCount' = [failCount EXCEPT ![f] = @ + 1]
                    /\ IF OnFailedVerification(pass) = "redownload"
                       THEN /\ missing' = Append(missing, f)
                            /\ i' = i + 1
                            /\ UNCHANGED <<pc, error>>
                       ELSE /\ logit_raises("EXCEPTION")
                            /\ Raise("Too many failed verifications!")
                            /\ UNCHANGED <<i, missing>>
                    /\ UNCHANGED <<extracted, relExists>>
               ELSE /\ i' = i + 1
                    /\ IF missing = <<>>
                       THEN /\ extracted' = [extracted EXCEPT ![f] = @ + 1]
                            /\ relExists' = TRUE
                       ELSE UNCHANGED <<extracted, relExists>>
                    /\ UNCHANGED <<pc, error, missing, failCount>>
    /\ UNCHANGED <<args, server, http, hardened, files, dlExists, disk,
                   pass, list, runs, net, dlCount, goodAtEntry, startGood,
                   updateRan, extractVars, pluginVars, restVars>>

\* __fetch_check__ returns missing; the caller downloads the missing files
\* and verifies once more, or goes on to the update.
fetch_check_return ==
    /\ pc = "chk" /\ i > Len(files)
    /\ IF ~pass /\ missing # <<>>
       THEN /\ pass' = TRUE
            /\ list' = missing
            /\ pc' = "download"
       ELSE /\ pc' = "update"
            /\ UNCHANGED <<pass, list>>
    /\ UNCHANGED <<args, server, http, hardened, files, dlExists, disk,
                   relExists, i, missing, error, runs, net, dlCount,
                   extracted, failCount, goodAtEntry, startGood, updateRan,
                   hist, extractVars, pluginVars, restVars>>

\* The end of fetch_http_release / fetch_ftp_release: fetch_update, which
\* downloads the patch script when the new root has a freebsd-update.conf.
fetch_update ==
    /\ pc = "update"
    /\ pc' = "done"
    /\ IF RunsUpdate(http, hardened, args.update)
       THEN /\ updateRan' = TRUE
            /\ \E conf \in BOOLEAN :
                 net' = IF conf THEN net \cup {"patch"} ELSE net
       ELSE UNCHANGED <<updateRan, net>>
    /\ UNCHANGED <<args, server, http, hardened, files, dlExists, disk,
                   relExists, pass, list, i, missing, error, runs, dlCount,
                   extracted, failCount, goodAtEntry, startGood, hist,
                   extractVars, pluginVars, restVars>>

\* The fetch is run again: a new IOCFetch object with the same arguments, on
\* the datasets the last run left.
fetch_again ==
    /\ pc \in {"done", "error"} /\ runs < MaxFetches
    /\ NewObject(args)
    /\ UNCHANGED <<args, dlExists, disk, relExists, runs,
                   extractVars, pluginVars, restVars>>

Next ==
    \/ fetch_release
    \/ fetch_download
    \/ download_http
    \/ download_ftp
    \/ fetch_check
    \/ fetch_check_file
    \/ fetch_check_return
    \/ fetch_update
    \/ fetch_again

Spec == Init /\ [][Next]_vars

(***************************************************************************)
(*                        THE ARCHIVE INSTALLER                            *)
(* Paths and member names are sequences of characters, so that the string  *)
(* tests of the code (substring, prefix, character-wise common prefix) and *)
(* os.path's normalisation are computed as the code computes them.         *)
(***************************************************************************)

\* self.iocroot and self.release.
iocroot == <<"/", "i", "o", "c", "a", "g", "e">>
release == <<"1", "1", ".", "2", "-", "R", "E", "L", "E", "A", "S", "E">>

\* fetch_extract's dest, and the working directory (the download dataset).
dest == iocroot \o <<"/", "r", "e", "l", "e", "a", "s", "e", "s", "/">> \o release \o <<"/", "r", "o", "o", "t">>
cwd == iocroot \o <<"/", "d", "o", "w", "n", "l", "o", "a", "d", "/">> \o release

\* The member names an archive may hold.
dot == <<".">>
name_a == <<".", "/", "a">>
name_jail == <<".", ".", "/", ".", ".", "/", ".", ".", "/", "j", "a", "i", "l", "s", "/", "w", "e", "b", "/", "r", "o", "o", "t", "/", "e", "t", "c", "/", "p", "a", "s", "s", "w", "d">>
name_dots == <<".", "/", "a", ".", ".", "b">>
name_plain == <<"a">>
name_passwd == <<".", ".", "/", ".", ".", "/", "e", "t", "c", "/", "p", "a", "s", "s", "w", "d">>
name_abs == <<"/", "e", "t", "c", "/", "p", "a", "s", "s", "w", "d">>
name_sibling == <<".", ".", "/", "r", "o", "o", "t", "2", "/", "x">>
MemberNames == {dot, name_a, name_dots, name_plain, name_passwd, name_jail,
                name_abs, name_sibling}

\* Files outside the release root: one in <iocroot>/releases, the passwd
\* file of a jail, and the host's own /etc/passwd.
out_passwd == iocroot \o <<"/", "r", "e", "l", "e", "a", "s", "e", "s", "/">> \o <<"e", "t", "c", "/", "p", "a", "s", "s", "w", "d">>
out_jail == iocroot \o <<"/", "j", "a", "i", "l", "s", "/", "w", "e", "b", "/", "r", "o", "o", "t", "/", "e", "t", "c", "/", "p", "a", "s", "s", "w", "d">>
host_passwd == <<"/", "e", "t", "c", "/", "p", "a", "s", "s", "w", "d">>
Outside == {out_passwd, out_jail, host_passwd}

\* str.startswith and the substring test "p in s".
startswith(s, p) == Len(s) >= Len(p) /\ SubSeq(s, 1, Len(p)) = p
contains(s, p) ==
    \E k \in 1..(Len(s) - Len(p) + 1) : SubSeq(s, k, k + Len(p) - 1) = p

\* str.strip(chars): characters of the set are removed from both ends.
RECURSIVE lstrip_chars(_, _)
lstrip_chars(s, chars) ==
    IF s # <<>> /\ s[1] \in chars THEN lstrip_chars(Tail(s), chars) ELSE s
RECURSIVE rstrip_chars(_, _)
rstrip_chars(s, chars) ==
    IF s # <<>> /\ s[Len(s)] \in chars
    THEN rstrip_chars(SubSeq(s, 1, Len(s) - 1), chars)
    ELSE s
strip_chars(s, chars) == rstrip_chars(lstrip_chars(s, chars), chars)

\* str.split(sep) and str.rsplit(sep) for a separator of one character.
RECURSIVE SplitOn(_, _, _, _)
SplitOn(s, sep, cur, acc) ==
    IF s = <<>> THEN Append(acc, cur)
    ELSE IF Head(s) = sep THEN SplitOn(Tail(s), sep, <<>>, Append(acc, cur))
    ELSE SplitOn(Tail(s), sep, Append(cur, Head(s)), acc)
split_on(s, sep) == SplitOn(s, sep, <<>>, <<>>)

\* str.split("/").
RECURSIVE SplitAcc(_, _, _)
SplitAcc(s, cur, acc) ==
    IF s = <<>> THEN Append(acc, cur)
    ELSE IF Head(s) = "/" THEN SplitAcc(Tail(s), <<>>, Append(acc, cur))
    ELSE SplitAcc(Tail(s), Append(cur, Head(s)), acc)
split(s) == SplitAcc(s, <<>>, <<>>)

\* "/".join(comps).
RECURSIVE join_slash(_)
join_slash(comps) ==
    IF comps = <<>> THEN <<>>
    ELSE IF Len(comps) = 1 THEN comps[1]
    ELSE comps[1] \o <<"/">> \o join_slash(Tail(comps))

\* posixpath.normpath: the loop over the components.
RECURSIVE NormComps(_, _, _)
NormComps(comps, new, slashes) ==
    IF comps = <<>> THEN new
    ELSE LET c == Head(comps) IN
         IF c = <<>> \/ c = <<".">> THEN NormComps(Tail(comps), new, slashes)
         ELSE IF \/ c # <<".", ".">>
                 \/ (slashes = 0 /\ new = <<>>)
                 \/ (new # <<>> /\ new[Len(new)] = <<".", ".">>)
         THEN NormComps(Tail(comps), Append(new, c), slashes)
         ELSE IF new # <<>>
         THEN NormComps(Tail(comps), SubSeq(new, 1, Len(new) - 1), slashes)
         ELSE NormComps(Tail(comps), new, slashes)

\* posixpath.normpath.
normpath(p) ==
    LET slashes == IF ~startswith(p, <<"/">>) THEN 0
                   ELSE IF startswith(p, <<"/", "/">>)
                           /\ ~startswith(p, <<"/", "/", "/">>) THEN 2
                   ELSE 1
        body == join_slash(NormComps(split(p), <<>>, slashes))
        path == IF slashes = 2 THEN <<"/", "/">> \o body
                ELSE IF slashes = 1 THEN <<"/">> \o body
                ELSE body
    IN  IF path = <<>> THEN <<".">> ELSE path

\* posixpath.join of two paths.
path_join(a, b) ==
    IF startswith(b, <<"/">>) THEN b
    ELSE IF a = <<>> \/ a[Len(a)] = "/" THEN a \o b
    ELSE a \o <<"/">> \o b

\* posixpath.abspath.
abspath(p) ==
    IF startswith(p, <<"/">>) THEN normpath(p) ELSE normpath(path_join(cwd, p))

\* os.path.commonprefix of two strings: character by character.
RECURSIVE commonprefix(_, _)
commonprefix(a, b) ==
    IF a = <<>> \/ b = <<>> \/ Head(a) # Head(b) THEN <<>>
    ELSE <<Head(a)>> \o commonprefix(Tail(a), Tail(b))

\* is_within_directory of fetch_extract.
is_within_directory(directory, target) ==
    commonprefix(abspath(directory), abspath(target)) = abspath(directory)

\* The file a path names once the kernel has resolved it; every directory
\* on the way exists (the release root does, from fetch_extract's start).
Resolve(p) == normpath(p)

\* The path __fetch_extract_remove__ removes for a member.
rel_path(n) == iocroot \o <<"/", "r", "e", "l", "e", "a", "s", "e", "s", "/">> \o release \o <<"/", "r", "o", "o", "t", "/">> \o n

\* __fetch_check_members__: the members handed on to extraction.
has_dotdot(n) == contains(n, <<".", ".">>)
accepted(n) ==
    /\ n # dot
    /\ ~(has_dotdot(n) \/ ~startswith(n, <<".", "/">>))
fetch_check_members_result(members) == SelectSeq(members, accepted)

\* safe_extract's test over tar.getmembers(): some member's joined path is
\* not within the destination.
traversal(members) ==
    \E k \in 1..Len(members) :
        ~is_within_directory(dest, path_join(dest, members[k]))

\* A path strictly inside the release root.
InsideDest(p) == startswith(p, dest \o <<"/">>)

\* The same IOCFetch fields as Init gives, with no fetch under way.
FullDisk ==
    [f \in Range(Files) |-> IF f = "MANIFEST" THEN "m_full" ELSE "c1"]

FetchOff ==
    /\ args = [server |-> DefaultServer, http |-> FALSE, hardened |-> FALSE,
               update |-> FALSE]
    /\ server = DefaultServer /\ http = FALSE /\ hardened = FALSE
    /\ files = Files
    /\ pc = "off" /\ pass = FALSE /\ list = <<>> /\ i = 0
    /\ missing = <<>> /\ error = ""
    /\ runs = 0 /\ net = {} /\ dlCount = Zero /\ extracted = Zero
    /\ failCount = Zero /\ goodAtEntry = FALSE /\ startGood = FALSE
    /\ updateRan = FALSE
    /\ hist = NoHist

FetchIdle ==
    /\ FetchOff
    /\ dlExists = TRUE
    /\ disk = FullDisk

\* All archives of at most MaxMembers members.
TarFiles == UNION {[1..n -> MemberNames] : n \in 1..MaxMembers}

\* fetch_extract is about to run on a downloaded archive; the release root
\* may exist already and hold files, and there are files outside it.
InitExtract ==
    /\ FetchIdle
    /\ PluginIdle
    /\ LocalIdle
    /\ SelectIdle
    /\ ListingIdle
    /\ MergeIdle
    /\ UpdateIdle
    /\ relExists \in BOOLEAN
    /\ tar \in TarFiles
    /\ fs \in SUBSET ({Resolve(rel_path(name_a)), Resolve(rel_path(name_dots))}
                      \cup Outside)
    /\ ~relExists => \A p \in fs : ~InsideDest(p)
    /\ xpc = "start"
    /\ member = <<>>
    /\ removed = {}
    /\ written = {}

\* fetch_extract up to tarfile.open: the release dataset is created and
\* mounted when its root is not there.
fetch_extract ==
    /\ xpc = "start"
    /\ relExists' = TRUE
    /\ xpc' = "remove"
    /\ UNCHANGED <<tar, fs, member, removed, written>>
    /\ UNCHANGED <<args, server, http, hardened, files, dlExists, disk,
                   pc, pass, list, i, missing, error, runs, net, dlCount,
                   extracted, failCount, goodAtEntry, startGood, updateRan,
                   hist, pluginVars, restVars>>

\* __fetch_extract_remove__: os.remove on every member's path under the
\* root, errors ignored; every member is returned.
fetch_extract_remove ==
    /\ xpc = "remove"
    /\ LET targets == {Resolve(rel_path(tar[k])) : k \in 1..Len(tar)} IN
       /\ fs' = fs \ targets
       /\ removed' = removed \cup (fs \cap targets)
    /\ member' = tar
    /\ xpc' = "check"
    /\ UNCHANGED <<tar, written, fetchVars, pluginVars, restVars>>

\* __fetch_check_members__.
fetch_check_members ==
    /\ xpc = "check"
    /\ member' = fetch_check_members_result(member)
    /\ xpc' = "extract"
    /\ UNCHANGED <<tar, fs, removed, written, fetchVars, pluginVars, restVars>>

\* safe_extract: raise when a member of the archive leaves the destination,
\* else tar.extractall of the members handed on.
safe_extract ==
    /\ xpc = "extract"
    /\ IF traversal(tar)
       THEN /\ xpc' = "error"
            /\ UNCHANGED <<fs, written>>
       ELSE /\ xpc' = "done"
            /\ written' = {Resolve(path_join(dest, member[k])) :
                              k \in 1..Len(member)}
            /\ fs' = fs \cup written'
    /\ UNCHANGED <<tar, member, removed, fetchVars, pluginVars, restVars>>

NextExtract ==
    \/ fetch_extract
    \/ fetch_extract_remove
    \/ fetch_check_members
    \/ safe_extract

SpecExtract == InitExtract /\ [][NextExtract]_vars

(***************************************************************************)
(*                        THE PLUGIN PROVISIONER                           *)
(* fetch_plugin, one action per call it makes.  ppc names the call that is *)
(* running or about to run.                                                *)
(***************************************************************************)

\* What the operator may type at "Do you agree? (y/N)".
Answers == {"y", "Y", "n", "N", "", "yes"}

\* str.lower on the answers.
lower(a) == IF a = "Y" THEN "y" ELSE IF a = "N" THEN "n" ELSE a

\* __fetch_plugin_inform__ looks at the license only for num <= 1.
informs(num) == num <= 1

\* The license has to be asked for.
asks_license(license, accept_license) == license /\ ~accept_license

\* The answer that aborts the fetch.
license_rejected(agree) == lower(agree) # "y"

\* The calls fetch_plugin makes inside its try block.
try_create_only(step) == step = "create"
in_try(step) == step \in {"create", "install", "post"}

\* The calls of fetch_plugin a KeyboardInterrupt may arrive in.
Steps == {"load", "inform", "props", "create", "install", "post"}

\* The values of ip4_addr and ip6_addr, and of dhcp, in the created jail's
\* configuration.
none == <<"n", "o", "n", "e">>
Addrs == {none, <<"v", "n", "e", "t", "0", "|", "1", "0", ".", "0", ".", "0", ".", "2", "/", "2", "4">>}
Addrs6 == {none, <<"v", "n", "e", "t", "0", "|", "f", "d", "0", "0", ":", ":", "2", "/", "6", "4">>}
Dhcp == {"on", "off"}

\* __fetch_plugin_create__'s test after create_jail.
address_never_missing(ip4_addr, ip6_addr, dhcp) ==
    ip4_addr = none /\ ip6_addr = none /\ dhcp = "never"
no_address(ip4_addr, ip6_addr, dhcp) ==
    ip4_addr = none /\ ip6_addr = none /\ dhcp # "on"

\* addr.split("|")[1].rsplit("/")[0], "none" on an IndexError.
static_ip(addr) ==
    LET parts == split_on(addr, "|") IN
    IF Len(parts) < 2 THEN none ELSE split_on(parts[2], "/")[1]

\* The address __fetch_plugin_post_install__ settles on before the
\* artifact: the IPv4 one, else the IPv6 one, else none yet (DHCP).
is_dhcp(ip4, ip6) == ip4 = none /\ ip6 = none
plugin_ip(ip4, ip6) ==
    IF ip4 # none THEN ip4 ELSE IF ip6 # none THEN ip6 ELSE <<>>

\* The address ifconfig reports inside a jail that uses DHCP.
ifconfig_inet == <<"1", "0", ".", "0", ".", "0", ".", "9">>

\* IOCAGE_PLUGIN_IP before fetch_plugin sets it.
unset == <<"unset">>

NoOutput ==
    [agree |-> "unasked", interrupted |-> "", create_called |-> FALSE,
     destroy_calls |-> 0, exit |-> -1, error |-> "", addr |-> <<>>,
     pkg_err |-> FALSE, pkg_msg |-> FALSE, cloned |-> FALSE,
     post_ran |-> FALSE, fetches |-> 0, wrote |-> FALSE,
     repo_confs |-> {}, trusted |-> {}, env |-> unset,
     script_env |-> unset]

\* The (function, fingerprint) pairs a descriptor declares, and the
\* descriptor's "fingerprints": repositories in the order of declaration,
\* each with its pairs.
pair_1 == [function |-> "sha256", fingerprint |-> "fp1"]
pair_2 == [function |-> "sha256", fingerprint |-> "fp2"]
Fingerprints ==
    {<<>>,
     <<[name |-> "iocage-plugins", pairs |-> <<>>]>>,
     <<[name |-> "iocage-plugins", pairs |-> <<pair_1>>]>>,
     <<[name |-> "iocage-plugins", pairs |-> <<pair_1, pair_2>>]>>,
     <<[name |-> "iocage-plugins", pairs |-> <<pair_1>>],
       [name |-> "extra", pairs |-> <<pair_2>>]>>}

\* A file that has not been opened, and open(f_file, "w") followed by the
\* write of one pair: the file holds that pair and nothing else.
no_file == [exists |-> FALSE, pairs |-> <<>>]
open_w_write(file, r) == [exists |-> TRUE, pairs |-> <<r>>]

\* The loop "for r in repo" over the pairs of one repository.
RECURSIVE finger_loop(_, _)
finger_loop(pairs, file) ==
    IF pairs = <<>> THEN file
    ELSE finger_loop(Tail(pairs), open_w_write(file, Head(pairs)))

\* The loop "for repo in pkg_repos": the names of the <repo>.conf files
\* written, and the files <repo> under fingerprints/<repo>/trusted.
repo_conf_files(pkg_repos) == {pkg_repos[k].name : k \in 1..Len(pkg_repos)}
trusted_files(pkg_repos) ==
    {[repo |-> pkg_repos[k].name,
      file |-> finger_loop(pkg_repos[k].pairs, no_file)] :
        k \in 1..Len(pkg_repos)}

\* Most items a descriptor's "properties" has.
MaxProperties == 1

\* The releases a descriptor may ask for.
PluginReleases ==
    {<<"9", ".", "3", "-", "R", "E", "L", "E", "A", "S", "E">>,
     <<"1", "1", ".", "2", "-", "R", "E", "L", "E", "A", "S", "E">>}

\* conf["release"][:4].endswith("-"): a release of one digit before the dot.
below_ten(rel) ==
    LET head == SubSeq(rel, 1, IF Len(rel) < 4 THEN Len(rel) ELSE 4) IN
    head # <<>> /\ head[Len(head)] = "-"

\* The release is looked for, and fetched when it is not there, once for
\* every item of the descriptor's properties.
checks_release(properties) == properties > 0

\* The userland version is read from the release's freebsd-version.
reads_version(rel) == ~below_ten(rel)

\* A fetch_plugin call: its num and accept_license arguments, whether the
\* plugin's index entry carries a license, whether the descriptor names
\* an artifact, the release it asks for and how many properties it has,
\* and whether the release and its freebsd-version are there.
InitPlugin ==
    /\ FetchIdle
    /\ relExists \in BOOLEAN
    /\ ExtractIdle
    /\ LocalIdle
    /\ SelectIdle
    /\ ListingIdle
    /\ MergeIdle
    /\ UpdateIdle
    /\ plugin \in [num : 0..MaxNum, accept_license : BOOLEAN,
                   license : BOOLEAN, artifact : BOOLEAN,
                   release : PluginReleases, properties : 0..MaxProperties,
                   version_file : BOOLEAN, fingerprints : Fingerprints]
    /\ plugin.version_file => relExists
    /\ ppc = "load"
    /\ jail = "none"
    /\ pout = NoOutput

PRaise(e) == ppc' = "raised" /\ pout' = [pout EXCEPT !.error = e]

\* fetch_plugin up to self.release = conf['release']: the index and the
\* descriptor are read.
fetch_plugin ==
    /\ ppc = "load"
    /\ \E r \in {"ok", "was not found!", "Invalid JSON file supplied"} :
         IF r = "ok"
         THEN ppc' = "inform" /\ UNCHANGED pout
         ELSE logit_raises("EXCEPTION") /\ PRaise(r)
    /\ UNCHANGED <<plugin, jail, fetchVars, extractVars, restVars>>

\* __fetch_plugin_inform__.
fetch_plugin_inform ==
    /\ ppc = "inform"
    /\ IF informs(plugin.num)
          /\ asks_license(plugin.license, plugin.accept_license)
       THEN \E agree \in Answers :
              IF license_rejected(agree)
              THEN /\ logit_raises("EXCEPTION")
                   /\ ppc' = "raised"
                   /\ pout' = [pout EXCEPT
                          !.agree = agree,
                          !.error = "You must accept the license to continue!"]
              ELSE /\ ppc' = "props"
                   /\ pout' = [pout EXCEPT !.agree = agree]
       ELSE ppc' = "props" /\ UNCHANGED pout
    /\ UNCHANGED <<plugin, jail, fetchVars, extractVars, restVars>>

\* __fetch_plugin_props__.  In the loop over the descriptor's properties
\* the release is fetched when its directory is not there; then, for a
\* release that has the file, freebsd-version is read, and the release is
\* fetched when the file is missing and the file is read again.  A
\* fetch_release that returns leaves the release there; it can fail.
fetch_plugin_props ==
    /\ ppc = "props"
    /\ \E ok1 \in BOOLEAN, ver1 \in BOOLEAN, ok2 \in BOOLEAN, ver2 \in BOOLEAN :
         LET in_loop == checks_release(plugin.properties) /\ ~relExists
             has_version == IF in_loop THEN ver1 ELSE plugin.version_file
         IN
         IF in_loop /\ ~ok1
         THEN PRaise("fetch_release failed") /\ UNCHANGED relExists
         ELSE IF ~reads_version(plugin.release) \/ has_version
         THEN /\ ppc' = "create"
              /\ relExists' = (relExists \/ in_loop)
              /\ pout' = [pout EXCEPT
                     !.fetches = IF in_loop THEN 1 ELSE 0]
         ELSE IF ~ok2
         THEN PRaise("fetch_release failed")
              /\ relExists' = (relExists \/ in_loop)
         ELSE IF ~ver2
         THEN PRaise("FileNotFoundError") /\ relExists' = TRUE
         ELSE /\ ppc' = "create"
              /\ relExists' = TRUE
              /\ pout' = [pout EXCEPT
                     !.fetches = IF in_loop THEN 2 ELSE 1]
    /\ UNCHANGED <<plugin, jail, args, server, http, hardened, files,
                   dlExists, disk, pc, pass, list, i, missing, error, runs,
                   net, dlCount, extracted, failCount, goodAtEntry,
                   startGood, updateRan, hist, extractVars, restVars>>

\* __fetch_plugin_create__: create_jail, then the jail is destroyed again
\* when its configuration has no address.
fetch_plugin_create ==
    /\ ppc = "create"
    /\ \E ip4_addr \in Addrs, ip6_addr \in Addrs6, dhcp \in Dhcp :
         LET addr == <<ip4_addr, ip6_addr, dhcp>> IN
         IF no_address(ip4_addr, ip6_addr, dhcp)
         THEN /\ ~logit_raises("ERROR")
              /\ logit_raises("EXCEPTION")
              /\ jail' = "destroyed"
              /\ ppc' = "raised"
              /\ pout' = [pout EXCEPT !.create_called = TRUE,
                                      !.addr = addr,
                                      !.destroy_calls = @ + 1,
                                      !.error = "Destroyed partial plugin."]
         ELSE /\ jail' = "created"
              /\ ppc' = "install"
              /\ pout' = [pout EXCEPT !.create_called = TRUE, !.addr = addr]
    /\ UNCHANGED <<plugin, fetchVars, extractVars, restVars>>

\* __fetch_plugin_install_packages__: kldload of the kmods, the repository
\* files, create_install_packages (whose site argument is the name of the
\* last repository, unbound when there is none) and the report of its
\* error.
fetch_plugin_install_packages ==
    /\ ppc = "install"
    /\ \E kmod_ok \in BOOLEAN, err \in BOOLEAN :
         IF ~kmod_ok
         THEN logit_raises("EXCEPTION") /\ PRaise("Module not found!")
         ELSE IF plugin.fingerprints = <<>>
         THEN /\ ppc' = "raised"
              /\ pout' = [pout EXCEPT !.wrote = TRUE,
                                      !.error = "UnboundLocalError"]
         ELSE /\ ~logit_raises("ERROR")
              /\ ppc' = "post"
              /\ pout' = [pout EXCEPT
                     !.wrote = TRUE,
                     !.repo_confs = repo_conf_files(plugin.fingerprints),
                     !.trusted = trusted_files(plugin.fingerprints),
                     !.pkg_err = err, !.pkg_msg = err]
    /\ UNCHANGED <<plugin, jail, fetchVars, extractVars, restVars>>

\* __fetch_plugin_post_install__: IOCAGE_PLUGIN_IP is set to the static
\* address, or to "" when there is none; the artifact is cloned,
\* post_install.sh is copied when the artifact has one, and run; after it
\* has run, the address of a jail on DHCP is asked for and exported.
fetch_plugin_post_install ==
    /\ ppc = "post"
    /\ LET ip4 == static_ip(pout.addr[1])
           ip6 == static_ip(pout.addr[2])
           ip == plugin_ip(ip4, ip6)
       IN
       IF plugin.artifact
       THEN \E clone_ok \in BOOLEAN, has_script \in BOOLEAN,
               script_err \in BOOLEAN :
              IF ~clone_ok
              THEN /\ ppc' = "raised"
                   /\ pout' = [pout EXCEPT !.env = ip, !.error = "GitError"]
              ELSE IF ~has_script
              THEN /\ ppc' = "done"
                   /\ pout' = [pout EXCEPT !.env = ip, !.cloned = TRUE]
              ELSE IF script_err
              THEN /\ logit_raises("EXCEPTION")
                   /\ ppc' = "raised"
                   /\ pout' = [pout EXCEPT
                          !.env = ip, !.script_env = ip,
                          !.cloned = TRUE, !.post_ran = TRUE,
                          !.error = "An error occured! Please read above"]
              ELSE /\ ppc' = "done"
                   /\ pout' = [pout EXCEPT
                          !.script_env = ip,
                          !.env = IF is_dhcp(ip4, ip6)
                                  THEN ifconfig_inet ELSE ip,
                          !.cloned = TRUE, !.post_ran = TRUE]
       ELSE ppc' = "done" /\ pout' = [pout EXCEPT !.env = ip]
    /\ UNCHANGED <<plugin, jail, fetchVars, extractVars, restVars>>

\* A KeyboardInterrupt arrives during one of fetch_plugin's calls.  Inside
\* the try block the handler destroys the jail and exits with status 1;
\* outside it the interrupt leaves fetch_plugin.  During create_jail the
\* jail may already be there.
keyboard_interrupt ==
    /\ ppc \in Steps
    /\ IF in_try(ppc)
       THEN \E partial \in {jail} \cup
                           (IF ppc = "create" THEN {"created"} ELSE {}) :
              /\ jail' = IF partial = "created" THEN "destroyed" ELSE jail
              /\ ppc' = "exited"
              /\ pout' = [pout EXCEPT !.interrupted = ppc,
                                      !.destroy_calls = @ + 1,
                                      !.exit = 1]
       ELSE /\ ppc' = "raised"
            /\ pout' = [pout EXCEPT !.interrupted = ppc,
                                    !.error = "KeyboardInterrupt"]
            /\ UNCHANGED jail
    /\ UNCHANGED <<plugin, fetchVars, extractVars, restVars>>

NextPlugin ==
    \/ fetch_plugin
    \/ fetch_plugin_inform
    \/ fetch_plugin_props
    \/ fetch_plugin_create
    \/ fetch_plugin_install_packages
    \/ fetch_plugin_post_install
    \/ keyboard_interrupt

SpecPlugin == InitPlugin /\ [][NextPlugin]_vars

(***************************************************************************)
(*                  THE FETCH FROM A LOCAL DIRECTORY                       *)
(* The _file branch of fetch_release: the files are copied from            *)
(* <root_dir>/<release> into the download dataset and extracted.           *)
(***************************************************************************)

\* The values of the files argument: the default and two shorter ones.
FileOrders == {Files, <<"MANIFEST", "base.txz">>, <<"base.txz", "MANIFEST">>}

\* <root_dir>/<release>, the directory the files are expected in.
LocalDir == "/mnt/dist/11.2-RELEASE"

\* The message for a file that is not in the source directory.
RequiredMessage(f) ==
    (IF f = "MANIFEST" THEN f ELSE f \o ".txz")
        \o " is a required file!\nPlease place it in " \o LocalDir

\* What the source directory may hold for each file.
SourceDirs ==
    {h \in [Range(Files) -> {"absent", "m_full", "c0", "c1"}] :
        /\ h["MANIFEST"] \in {"absent", "m_full"}
        /\ \A f \in Archives : h[f] \in {"absent", "c0", "c1"}}

\* A fetch_release call with _file set on an object that is neither http nor
\* hardened: root_dir and release given or not, the source directory there
\* or not, the datasets there or not.
InitLocal ==
    /\ args \in [server : {DefaultServer}, http : {FALSE},
                 hardened : {FALSE}, update : BOOLEAN]
    /\ server = DefaultServer /\ http = FALSE /\ hardened = FALSE
    /\ files \in FileOrders
    /\ dlExists \in BOOLEAN
    /\ disk \in {NoFile, [f \in Range(Files) |->
                            IF f = "MANIFEST" THEN "m_full" ELSE "c1"]}
    /\ ~dlExists => disk = NoFile
    /\ relExists \in BOOLEAN
    /\ pc = "off" /\ pass = FALSE /\ list = <<>> /\ i = 0
    /\ missing = <<>> /\ error = ""
    /\ runs = 0 /\ net = {} /\ dlCount = Zero /\ extracted = Zero
    /\ failCount = Zero /\ goodAtEntry = FALSE /\ startGood = FALSE
    /\ updateRan = FALSE
    /\ hist = NoHist
    /\ ExtractIdle
    /\ PluginIdle
    /\ SelectIdle
    /\ ListingIdle
    /\ MergeIdle
    /\ UpdateIdle
    /\ lsrc \in [root_dir : BOOLEAN, release : BOOLEAN, dir : BOOLEAN,
                 has : SourceDirs, dl0 : {dlExists}, disk0 : {disk},
                 rel0 : {relExists}]
    /\ ~(lsrc.root_dir /\ lsrc.release) => ~lsrc.dir
    /\ ~lsrc.dir => lsrc.has = NoFile
    /\ lpc = "start"
    /\ lmade = {}
    /\ ldel = {}

LRaise(e) == lpc' = "error" /\ error' = e

\* fetch_release, _file branch, up to the loop: the argument checks, chdir
\* to the source directory, and the download dataset created when absent.
fetch_release_file ==
    /\ lpc = "start"
    /\ IF ~lsrc.root_dir
       THEN /\ logit_raises("EXCEPTION")
            /\ LRaise("Please supply --root-dir or -d.")
            /\ UNCHANGED <<dlExists, lmade, i>>
       ELSE IF ~lsrc.release
       THEN LRaise("Please supply a RELEASE!")
            /\ UNCHANGED <<dlExists, lmade, i>>
       ELSE IF ~lsrc.dir
       THEN LRaise("No such file or directory: " \o LocalDir)
            /\ UNCHANGED <<dlExists, lmade, i>>
       ELSE /\ dlExists' = TRUE
            /\ lmade' = IF dlExists THEN lmade ELSE lmade \cup {"download"}
            /\ lpc' = "copy"
            /\ i' = 1
            /\ UNCHANGED error
    /\ UNCHANGED <<args, server, http, hardened, files, disk, relExists,
                   pc, pass, list, missing, runs, net, dlCount, extracted,
                   failCount, goodAtEntry, startGood, updateRan, hist,
                   lsrc, ldel, extractVars, pluginVars, selectVars, moreVars>>

\* One iteration of the loop over self.files: a file that is not in the
\* source directory ends the fetch, after the download dataset has been
\* unmounted and deleted; any other file is copied and, unless it is
\* MANIFEST, extracted.
copy_file ==
    /\ lpc = "copy" /\ i <= Len(files)
    /\ LET f == files[i] IN
       IF lsrc.has[f] = "absent"
       THEN /\ dlExists' = FALSE
            /\ disk' = NoFile
            /\ ldel' = ldel \cup {"download"}
            /\ logit_raises("EXCEPTION")
            /\ LRaise(RequiredMessage(f))
            /\ UNCHANGED <<i, extracted, relExists, lmade>>
       ELSE /\ disk' = [disk EXCEPT ![f] = lsrc.has[f]]
            /\ i' = i + 1
            /\ IF f # "MANIFEST"
               THEN /\ extracted' = [extracted EXCEPT ![f] = @ + 1]
                    /\ relExists' = TRUE
                    /\ lmade' = IF relExists THEN lmade
                                ELSE lmade \cup {"release"}
               ELSE UNCHANGED <<extracted, relExists, lmade>>
            /\ UNCHANGED <<dlExists, ldel, lpc, error>>
    /\ UNCHANGED <<args, server, http, hardened, files, pc, pass, list,
                   missing, runs, net, dlCount, failCount, goodAtEntry,
                   startGood, updateRan, hist, lsrc,
                   extractVars, pluginVars, selectVars, moreVars>>

\* The loop is over and fetch_release returns.
fetch_release_file_return ==
    /\ lpc = "copy" /\ i > Len(files)
    /\ lpc' = "done"
    /\ UNCHANGED <<fetchVars, lsrc, lmade, ldel,
                   extractVars, pluginVars, selectVars, moreVars>>

NextLocal ==
    \/ fetch_release_file
    \/ copy_file
    \/ fetch_release_file_return

SpecLocal == InitLocal /\ [][NextLocal]_vars

(***************************************************************************)
(*                         RELEASE SELECTION                               *)
(* fetch_release with no release named: the backend is chosen, the         *)
(* releases are listed, the operator types an index or a name, and         *)
(* __fetch_validate_release__ resolves it.  Strings are sequences of       *)
(* characters.                                                             *)
(***************************************************************************)

\* Longest listing of releases shown to the operator.
MaxReleases == 3

Digits == {"0", "1", "2", "3", "4", "5", "6", "7", "8", "9"}
UpperLetters == <<"A", "B", "C", "D", "E", "F", "G", "H", "I", "J", "K", "L", "M", "N", "O", "P", "Q", "R", "S", "T", "U", "V", "W", "X", "Y", "Z">>
LowerLetters == <<"a", "b", "c", "d", "e", "f", "g", "h", "i", "j", "k", "l", "m", "n", "o", "p", "q", "r", "s", "t", "u", "v", "w", "x", "y", "z">>

\* \w of the re module.
Word(c) == c \in Range(UpperLetters) \cup Range(LowerLetters) \cup Digits
                 \cup {"_"}

\* str.lower.
lower_char(c) ==
    IF \E k \in 1..Len(UpperLetters) : UpperLetters[k] = c
    THEN LowerLetters[CHOOSE k \in 1..Len(UpperLetters) : UpperLetters[k] = c]
    ELSE c
str_lower(s) == [k \in 1..Len(s) |-> lower_char(s[k])]

\* str.upper.
upper_char(c) ==
    IF \E k \in 1..Len(LowerLetters) : LowerLetters[k] = c
    THEN UpperLetters[CHOOSE k \in 1..Len(LowerLetters) : LowerLetters[k] = c]
    ELSE c
str_upper(s) == [k \in 1..Len(s) |-> upper_char(s[k])]

\* __init__: the release is upper-cased, and for the hardened lineage cut
\* to its first two characters plus -STABLE.
init_release(rel, hard) ==
    IF hard THEN str_upper(SubSeq(rel, 1, 2) \o <<"-", "s", "t", "a", "b", "l", "e">>)
    ELSE str_upper(rel)

\* str.strip of blanks, as int() does before it parses.
RECURSIVE lstrip(_)
lstrip(s) == IF s # <<>> /\ s[1] = " " THEN lstrip(Tail(s)) ELSE s
RECURSIVE rstrip(_)
rstrip(s) ==
    IF s # <<>> /\ s[Len(s)] = " " THEN rstrip(SubSeq(s, 1, Len(s) - 1))
    ELSE s
strip(s) == rstrip(lstrip(s))

\* The digits of a literal after its sign.
unsigned(s) == IF s # <<>> /\ s[1] \in {"-", "+"} THEN Tail(s) ELSE s

\* int(s) succeeds: blanks, an optional sign, then digits.
is_int(s) ==
    LET b == unsigned(strip(s)) IN
    b # <<>> /\ \A k \in 1..Len(b) : b[k] \in Digits

digit_value(c) == CHOOSE n \in 0..9 : <<"0", "1", "2", "3", "4", "5", "6", "7", "8", "9">>[n + 1] = c
RECURSIVE digits_value(_)
digits_value(b) ==
    IF b = <<>> THEN 0
    ELSE 10 * digits_value(SubSeq(b, 1, Len(b) - 1)) + digit_value(b[Len(b)])

\* int(s).
int_value(s) ==
    LET t == strip(s) IN
    IF t[1] = "-" THEN 0 - digits_value(unsigned(t))
    ELSE digits_value(unsigned(t))

\* releases[n] does not raise IndexError: a list takes the indices
\* -len .. len-1.
index_ok(releases, n) == 0 - Len(releases) <= n /\ n < Len(releases)

\* releases[n].
list_item(releases, n) ==
    IF n >= 0 THEN releases[n + 1] ELSE releases[Len(releases) + n + 1]

\* rel.rsplit("-", 1)[0].
rsplit_dash(s) ==
    IF \E k \in 1..Len(s) : s[k] = "-"
    THEN LET last == CHOOSE k \in 1..Len(s) :
                         s[k] = "-" /\ \A j \in (k + 1)..Len(s) : s[j] # "-"
         IN SubSeq(s, 1, last - 1)
    ELSE s

\* re.sub(r"\W\w.", "-", s).
RECURSIVE sub_nonword(_, _)
sub_nonword(s, k) ==
    IF k > Len(s) THEN <<>>
    ELSE IF k + 2 <= Len(s) /\ ~Word(s[k]) /\ Word(s[k + 1])
    THEN <<"-">> \o sub_nonword(s, k + 3)
    ELSE <<s[k]>> \o sub_nonword(s, k + 1)

\* The end of the run of \w characters that begins at k.
RECURSIVE word_run_end(_, _)
word_run_end(s, k) ==
    IF k + 1 <= Len(s) /\ Word(s[k + 1]) THEN word_run_end(s, k + 1) ELSE k

\* re.sub(r"([A-Z])\w+", "STABLE", s).
RECURSIVE sub_upper(_, _)
sub_upper(s, k) ==
    IF k > Len(s) THEN <<>>
    ELSE IF s[k] \in Range(UpperLetters) /\ k + 1 <= Len(s) /\ Word(s[k + 1])
    THEN <<"S", "T", "A", "B", "L", "E">> \o sub_upper(s, word_run_end(s, k + 1) + 1)
    ELSE <<s[k]>> \o sub_upper(s, k + 1)

dash_STABLE == <<"-", "S", "T", "A", "B", "L", "E">>
dash_RELEASE == <<"-", "R", "E", "L", "E", "A", "S", "E">>
dash_HBSD == <<"-", "H", "B", "S", "D">>
not_a_release == <<"N", "o", "t", " ", "a", " ", "R", "E", "L", "E", "A", "S", "E">>

\* __fetch_host_release__ on os.uname()[2].
fetch_host_release(rel) ==
    LET base == rsplit_dash(rel) IN
    IF contains(rel, dash_STABLE) THEN base \o dash_RELEASE
    ELSE IF contains(rel, dash_HBSD)
    THEN sub_upper(sub_nonword(base, 1), 1)
    ELSE IF ~contains(rel, dash_RELEASE) THEN not_a_release
    ELSE base

\* The input is taken as a release name, not as an index.
longer_than_three(s) == Len(s) > 3
is_identifier(s) == Len(s) > 2

\* __fetch_validate_release__: what self.release and self.hardened become,
\* or the error or exit that ends it.
fetch_validate_release_result(typed, releases, uname, hard) ==
    LET ok(r, h) == [kind |-> "ok", release |-> r, hardened |-> h]
        fail(k) == [kind |-> k, release |-> typed, hardened |-> hard]
        host == fetch_host_release(uname)
    IN
    IF str_lower(typed) = <<"e", "x", "i", "t">> THEN fail("exit")
    ELSE IF is_identifier(typed)
    THEN IF typed \in Range(releases) THEN ok(typed, hard)
         ELSE fail("is not in list")
    ELSE IF is_int(typed)
    THEN IF index_ok(releases, int_value(typed))
         THEN ok(list_item(releases, int_value(typed)), hard)
         ELSE fail("is not in the list!")
    ELSE IF contains(host, dash_STABLE)
    THEN ok(host, TRUE)
    ELSE IF host \in Range(releases) THEN ok(host, hard)
    ELSE [kind |-> "Please select an item!", release |-> host,
          hardened |-> hard]

\* What the servers list, oldest first: releases, and the branches of the
\* hardened lineage.
AllReleases == <<<<"1", "0", ".", "4", "-", "R", "E", "L", "E", "A", "S", "E">>,
                 <<"1", "1", ".", "1", "-", "R", "E", "L", "E", "A", "S", "E">>,
                 <<"1", "1", ".", "2", "-", "R", "E", "L", "E", "A", "S", "E">>,
                 <<"1", "2", ".", "0", "-", "R", "E", "L", "E", "A", "S", "E">>>>
AllStable == <<<<"1", "0", "-", "S", "T", "A", "B", "L", "E">>,
               <<"1", "1", "-", "S", "T", "A", "B", "L", "E">>,
               <<"1", "2", "-", "S", "T", "A", "B", "L", "E">>,
               <<"1", "3", "-", "S", "T", "A", "B", "L", "E">>>>
Listings(hard) ==
    {SubSeq(IF hard THEN AllStable ELSE AllReleases, 1, n) :
        n \in 0..MaxReleases}

\* What the operator may type.
Typed ==
    {<<>>, <<"0">>, <<"1">>, <<"2">>, <<"3">>, <<"-", "1">>, <<"-", "4">>, <<" ", "1">>, <<"9", "9">>, <<"1", "0", "0">>,
     <<"x">>, <<"a", "b">>, <<"a", "b", "c">>, <<"e", "x", "i", "t">>, <<"E", "X", "I", "T">>,
     <<"1", "1", ".", "2", "-", "R", "E", "L", "E", "A", "S", "E">>,
     <<"1", "1", ".", "5", "-", "R", "E", "L", "E", "A", "S", "E">>,
     <<"1", "1", "-", "S", "T", "A", "B", "L", "E">>}

\* os.uname()[2] of the host.
Unames ==
    {<<"1", "1", ".", "2", "-", "R", "E", "L", "E", "A", "S", "E", "-", "p", "4">>,
     <<"1", "1", ".", "2", "-", "R", "E", "L", "E", "A", "S", "E">>,
     <<"1", "1", ".", "1", "-", "S", "T", "A", "B", "L", "E">>,
     <<"1", "2", ".", "0", "-", "C", "U", "R", "R", "E", "N", "T", "-", "H", "B", "S", "D">>,
     <<"1", "2", ".", "0", "-", "C", "U", "R", "R", "E", "N", "T">>}

\* The calls: with a release named the listing is not shown and nothing is
\* typed.
Calls ==
    {c \in [http : BOOLEAN, hardened : BOOLEAN, file : BOOLEAN,
            server : {DefaultServer, CustomServer}, named : BOOLEAN,
            list : BOOLEAN, typed : Typed,
            releases : Listings(TRUE) \cup Listings(FALSE), uname : Unames] :
        /\ c.releases \in Listings(c.hardened)
        /\ c.named => c.typed = <<>> /\ c.releases = <<>>}

InitSelect ==
    /\ FetchOff
    /\ dlExists \in BOOLEAN
    /\ disk = IF dlExists THEN FullDisk ELSE NoFile
    /\ relExists = TRUE
    /\ ExtractIdle
    /\ PluginIdle
    /\ LocalIdle
    /\ ListingIdle
    /\ MergeIdle
    /\ UpdateIdle
    /\ sin \in Calls
    /\ spc = "start"
    /\ srel = IF sin.named
              THEN init_release(<<"1", "1", ".", "2", "-", "r", "e", "l", "e", "a", "s", "e">>, sin.hardened)
              ELSE <<>>
    /\ shard = sin.hardened
    /\ strans = "none"
    /\ srdir = FALSE
    /\ serr = ""

SRaise(e) == spc' = "error" /\ serr' = e

\* fetch_release chooses the backend: HTTP when self.http (which __init__
\* sets for the hardened lineage), else the local directory when _file,
\* else FTP.
select_backend ==
    /\ spc = "start"
    /\ IF InitHttp(sin) THEN strans' = "http" /\ spc' = "index"
       ELSE IF sin.file THEN strans' = "file" /\ spc' = "copy"
       ELSE strans' = "ftp" /\ spc' = "index"
    /\ UNCHANGED <<sin, srel, shard, srdir, serr,
                   fetchVars, extractVars, pluginVars, localVars, moreVars>>

\* fetch_http_release / fetch_ftp_release up to the prompt: the index is
\* requested (rdir is assigned only for the hardened lineage on the default
\* server) and, with no release named, the releases are listed.
list_releases ==
    /\ spc = "index"
    /\ srdir' = (strans = "http" /\ shard /\ sin.server = DefaultServer)
    /\ IF strans = "http" /\ shard /\ ~srdir'
       THEN SRaise("UnboundLocalError")
       ELSE IF sin.named THEN spc' = "fetch" /\ UNCHANGED serr
       ELSE IF sin.list /\ ~(strans = "http" /\ shard)
       THEN spc' = "listed" /\ UNCHANGED serr
       ELSE spc' = "validate" /\ UNCHANGED serr
    /\ UNCHANGED <<sin, srel, shard, strans,
                   fetchVars, extractVars, pluginVars, localVars, moreVars>>

\* The operator's input goes through __fetch_validate_release__.
fetch_validate_release ==
    /\ spc = "validate"
    /\ LET r == fetch_validate_release_result(sin.typed, sin.releases,
                                              sin.uname, shard)
       IN /\ srel' = r.release
          /\ shard' = r.hardened
          /\ IF r.kind = "ok" THEN spc' = "fetch" /\ UNCHANGED serr
             ELSE IF r.kind = "exit" THEN spc' = "exit" /\ serr' = "exit"
             ELSE logit_raises("EXCEPTION") /\ SRaise(r.kind)
    /\ UNCHANGED <<sin, strans, srdir,
                   fetchVars, extractVars, pluginVars, localVars, moreVars>>

\* The release is settled and the download begins over the backend
\* chosen: HTTP builds the hardened root directory from rdir, FTP
\* changes to the release's directory.
begin_download ==
    /\ spc = "fetch"
    /\ IF strans = "http" /\ shard /\ ~srdir
       THEN SRaise("UnboundLocalError")
       ELSE \E found \in BOOLEAN :
              IF strans = "ftp" /\ ~found
              THEN SRaise("was not found!")
              ELSE spc' = "download" /\ UNCHANGED serr
    /\ UNCHANGED <<sin, srel, shard, strans, srdir,
                   fetchVars, extractVars, pluginVars, localVars, moreVars>>

\* fetch_download's loop over the files from position k on, with the server
\* lacking the files of lost: HTTP fails at the first file it cannot get,
\* FTP drops a file other than base.txz and MANIFEST from self.files and
\* fails on those two.
RECURSIVE download_loop(_, _, _, _, _)
download_loop(k, isHttp, hard, lost, acc) ==
    IF k > Len(Files) \/ acc.error # "" THEN acc
    ELSE LET f == Files[k] IN
         IF download_skips(isHttp, hard, f)
         THEN download_loop(k + 1, isHttp, hard, lost, acc)
         ELSE IF f \notin lost
         THEN download_loop(k + 1, isHttp, hard, lost,
                  [acc EXCEPT !.disk[f] = FullDisk[f], !.count[f] = @ + 1])
         ELSE IF isHttp
         THEN [acc EXCEPT !.error = "HTTPError", !.count[f] = @ + 1]
         ELSE IF f # "base.txz" /\ f # "MANIFEST"
         THEN download_loop(k + 1, isHttp, hard, lost,
                  [acc EXCEPT !.files = SelectSeq(Files, LAMBDA x : x # f)])
         ELSE [acc EXCEPT !.error = f \o " is required!"]

\* fetch_download for the release that was settled, over the backend that
\* was chosen: the download dataset is created when absent, and only then
\* are the files downloaded.
download_release ==
    /\ spc = "download"
    /\ dlExists' = TRUE
    /\ \E lost \in SUBSET {"base.txz", "lib32.txz"} :
         LET got == IF NeedsDownload(FALSE, ~dlExists)
                    THEN download_loop(1, strans = "http", shard, lost,
                             [disk |-> disk, count |-> dlCount,
                              files |-> files, error |-> ""])
                    ELSE [disk |-> disk, count |-> dlCount,
                          files |-> files, error |-> ""]
         IN /\ disk' = got.disk
            /\ dlCount' = got.count
            /\ files' = got.files
            /\ IF got.error # "" THEN SRaise(got.error)
               ELSE spc' = "check" /\ UNCHANGED serr
    /\ UNCHANGED <<sin, srel, shard, strans, srdir, args, server, http,
                   hardened, relExists, pc, pass, list, i, missing, error,
                   runs, net, extracted, failCount, goodAtEntry, startGood,
                   updateRan, hist, extractVars, pluginVars, localVars,
                   moreVars>>

NextSelect ==
    \/ select_backend
    \/ list_releases
    \/ fetch_validate_release
    \/ begin_download
    \/ download_release

SpecSelect == InitSelect /\ [][NextSelect]_vars

(***************************************************************************)
(*                        THE RELEASE LISTING                              *)
(* What fetch_ftp_release and fetch_http_release make of the entries the   *)
(* server returns when no release is named: the list they show and hand    *)
(* to __fetch_validate_release__.                                          *)
(***************************************************************************)

\* Longest answer of a server, in entries.
MaxRaw == 3

\* The markers looked for in an entry.
RELEASE_marker == <<"-", "R", "E", "L", "E", "A", "S", "E">>
STABLE_marker == <<"-", "S", "T", "A", "B", "L", "E">>

\* rel.strip("href=").strip("/").split(">")[0] of one word of the index page.
first_field(word) ==
    split_on(strip_chars(strip_chars(word, {"=", "e", "f", "h", "r"}), {"/"}), ">")[1]

\* rel[0].strip('"').strip("/").strip("/</a").strip('title="').
release_name(field) ==
    strip_chars(strip_chars(strip_chars(strip_chars(field, {"\""}), {"/"}),
                            {"/", "<", "a"}), {"\"", "=", "e", "i", "l", "t"})

\* rel[0].strip('"').strip("/").strip("HardenedBSD-").rsplit("-").
stable_parts(field) ==
    split_on(strip_chars(strip_chars(strip_chars(field, {"\""}), {"/"}),
                         {"-", "B", "D", "H", "S", "a", "d", "e", "n", "r"}), "-")

\* The loop of fetch_http_release over the words of the index page.
RECURSIVE http_entries(_, _)
http_entries(words, releases) ==
    IF words = <<>> THEN releases
    ELSE LET field == first_field(Head(words))
             rel == release_name(field)
         IN http_entries(Tail(words),
               IF contains(field, RELEASE_marker) /\ rel \notin Range(releases)
               THEN Append(releases, rel) ELSE releases)

\* The same loop for the hardened lineage; rel[1] of a name that has no
\* second part is an IndexError.
IndexError == <<"IndexError">>
RECURSIVE hardened_entries(_, _)
hardened_entries(words, releases) ==
    IF words = <<>> THEN releases
    ELSE LET field == first_field(Head(words))
             parts == stable_parts(field)
         IN IF ~contains(field, STABLE_marker)
            THEN hardened_entries(Tail(words), releases)
            ELSE IF Len(parts) < 2 THEN IndexError
            ELSE LET rel == parts[1] \o <<"-">> \o parts[2] IN
                 hardened_entries(Tail(words),
                    IF rel \notin Range(releases)
                    THEN Append(releases, rel) ELSE releases)

\* [rel for rel in ftp_list if "-RELEASE" in rel].
ftp_entries(names) == SelectSeq(names, LAMBDA rel : contains(rel, RELEASE_marker))

\* The number a release begins with, and the one after its first dot.
RECURSIVE leading_number(_, _)
leading_number(s, n) ==
    IF s # <<>> /\ s[1] \in Digits
    THEN leading_number(Tail(s), 10 * n + digit_value(s[1]))
    ELSE n
major(rel) == leading_number(rel, 0)
minor(rel) ==
    LET p == split_on(rel, ".") IN
    IF Len(p) > 1 THEN leading_number(p[2], 0) ELSE 0
older(a, b) ==
    major(a) < major(b) \/ (major(a) = major(b) /\ minor(a) < minor(b))

\* iocage.lib.ioc_common.sort_release: the releases in the order of the
\* release comparator, equal ones in the order they came in.
RECURSIVE insert_release(_, _)
insert_release(sorted, rel) ==
    IF sorted = <<>> THEN <<rel>>
    ELSE IF older(rel, Head(sorted)) THEN <<rel>> \o sorted
    ELSE <<Head(sorted)>> \o insert_release(Tail(sorted), rel)
RECURSIVE sort_release(_)
sort_release(releases) ==
    IF releases = <<>> THEN <<>>
    ELSE insert_release(sort_release(SubSeq(releases, 1, Len(releases) - 1)),
                        releases[Len(releases)])

\* Words an index page may hold, and names an FTP directory may hold.
HttpWords ==
    {<<"h", "r", "e", "f", "=", "\"", "1", "1", ".", "2", "-", "R", "E", "L", "E", "A", "S", "E", "/", "\"">>,
     <<"t", "i", "t", "l", "e", "=", "\"", "1", "1", ".", "2", "-", "R", "E", "L", "E", "A", "S", "E", "\"", ">", "1", "1", ".", "2", "-", "R", "E", "L", "E", "A", "S", "E", "/", "<", "/", "a", ">">>,
     <<"h", "r", "e", "f", "=", "\"", "1", "0", ".", "4", "-", "R", "E", "L", "E", "A", "S", "E", "/", "\"">>,
     <<"<", "a">>,
     <<"h", "r", "e", "f", "=", "\"", "R", "E", "A", "D", "M", "E", ".", "T", "X", "T", "\"">>}
HardenedWords ==
    {<<"h", "r", "e", "f", "=", "\"", "H", "a", "r", "d", "e", "n", "e", "d", "B", "S", "D", "-", "1", "1", "-", "S", "T", "A", "B", "L", "E", "-", "a", "m", "d", "6", "4", "-", "L", "A", "T", "E", "S", "T", "/", "\"">>,
     <<"h", "r", "e", "f", "=", "\"", "H", "a", "r", "d", "e", "n", "e", "d", "B", "S", "D", "-", "1", "2", "-", "S", "T", "A", "B", "L", "E", "-", "a", "m", "d", "6", "4", "-", "L", "A", "T", "E", "S", "T", "/", "\"">>,
     <<"h", "r", "e", "f", "=", "\"", "H", "a", "r", "d", "e", "n", "e", "d", "B", "S", "D", "-", "1", "2", "-", "p", "o", "r", "t", "s", "-", "S", "T", "A", "B", "L", "E", "-", "a", "m", "d", "6", "4", "/", "\"">>,
     <<"h", "r", "e", "f", "=", "\"", "-", "S", "T", "A", "B", "L", "E", "/", "\"">>}
FtpNames ==
    {<<"1", "1", ".", "2", "-", "R", "E", "L", "E", "A", "S", "E">>,
     <<"1", "0", ".", "4", "-", "R", "E", "L", "E", "A", "S", "E">>,
     <<"R", "E", "A", "D", "M", "E", ".", "T", "X", "T">>}

Answers_of(pool) == UNION {[1..n -> pool] : n \in 0..MaxRaw}

\* A backend is about to list: what it is and what the server returns.
InitListing ==
    /\ FetchIdle
    /\ relExists = TRUE
    /\ ExtractIdle
    /\ PluginIdle
    /\ LocalIdle
    /\ SelectIdle
    /\ MergeIdle
    /\ UpdateIdle
    /\ kin \in [backend : {"ftp"}, raw : Answers_of(FtpNames)]
         \cup [backend : {"http"}, raw : Answers_of(HttpWords)]
         \cup [backend : {"hardened"}, raw : Answers_of(HardenedWords)]
    /\ kpc = "start"
    /\ kout = <<>>

\* fetch_ftp_release: the names are filtered and sorted.
ftp_list ==
    /\ kpc = "start" /\ kin.backend = "ftp"
    /\ kout' = sort_release(ftp_entries(kin.raw))
    /\ kpc' = "shown"
    /\ UNCHANGED <<kin, fetchVars, extractVars, pluginVars, localVars,
                   selectVars, mergeVars, updateVars>>

\* fetch_http_release: the words of the index page are cut down to the
\* names, which are collected once each and sorted.
http_list ==
    /\ kpc = "start" /\ kin.backend = "http"
    /\ kout' = sort_release(http_entries(kin.raw, <<>>))
    /\ kpc' = "shown"
    /\ UNCHANGED <<kin, fetchVars, extractVars, pluginVars, localVars,
                   selectVars, mergeVars, updateVars>>

\* fetch_http_release for the hardened lineage.
hardened_list ==
    /\ kpc = "start" /\ kin.backend = "hardened"
    /\ LET releases == hardened_entries(kin.raw, <<>>) IN
       IF releases = IndexError
       THEN kpc' = "error" /\ kout' = IndexError
       ELSE kpc' = "shown" /\ kout' = sort_release(releases)
    /\ UNCHANGED <<kin, fetchVars, extractVars, pluginVars, localVars,
                   selectVars, mergeVars, updateVars>>

NextListing ==
    \/ ftp_list
    \/ http_list
    \/ hardened_list

SpecListing == InitListing /\ [][NextListing]_vars

(***************************************************************************)
(*                THE PROPERTY LIST OF A PLUGIN'S JAIL                     *)
(* The list __fetch_plugin_props__ returns: the caller's props, the        *)
(* descriptor's properties the caller did not give, and the four the       *)
(* function sets itself.                                                   *)
(***************************************************************************)

\* Most props a caller gives, and most items of a descriptor's properties.
MaxCaller == 2
MaxItems == 2

\* _prop.split("=")[0].
key_of(prop) == split_on(prop, "=")[1]

\* f"{p}={v}".
item_prop(item) == item.p \o <<"=">> \o item.v

\* A descriptor's item is added unless a prop has its key already.
is_added(p, props) == p \notin {key_of(props[k]) : k \in 1..Len(props)}

\* The loop over json_props.items().
RECURSIVE json_props_loop(_, _)
json_props_loop(items, props) ==
    IF items = <<>> THEN props
    ELSE json_props_loop(Tail(items),
            IF is_added(Head(items).p, props)
            THEN Append(props, item_prop(Head(items)))
            ELSE props)

\* k, v = p.split("=") needs two parts, and f"{k}={v}" puts them together.
unpacks(prop) == Len(split_on(prop, "=")) = 2
packed(prop) ==
    LET kv == split_on(prop, "=") IN kv[1] \o <<"=">> \o kv[2]

\* cloned_release, release, type and boot, as the function sets them.
own_props ==
    <<<<"c", "l", "o", "n", "e", "d", "_", "r", "e", "l", "e", "a", "s", "e", "=", "1", "1", ".", "2", "-", "R", "E", "L", "E", "A", "S", "E">>,
      <<"r", "e", "l", "e", "a", "s", "e", "=", "1", "1", ".", "2", "-", "R", "E", "L", "E", "A", "S", "E", "-", "p", "4">>,
      <<"t", "y", "p", "e", "=", "p", "l", "u", "g", "i", "n">>,
      <<"b", "o", "o", "t", "=", "o", "n">>>>

ValueError == <<"ValueError">>

\* create_props as __fetch_plugin_props__ returns it.
fetch_plugin_props_result(props, items) ==
    LET all == json_props_loop(items, props) IN
    IF \E k \in 1..Len(all) : ~unpacks(all[k]) THEN ValueError
    ELSE [k \in 1..Len(all) |-> packed(all[k])] \o own_props

\* The props a caller may give and the items a descriptor may have; the
\* keys of a descriptor's properties are all different.
CallerProps ==
    {<<"a", "=", "1">>, <<"a", "=", "2">>,
     <<"b", "o", "o", "t", "=", "o", "f", "f">>, <<"a">>}
ItemKeys == {<<"a">>, <<"b", "o", "o", "t">>}
ItemValues == {<<"1">>, <<"o", "n">>}
Descriptors ==
    {d \in UNION {[1..n -> [p : ItemKeys, v : ItemValues]] : n \in 0..MaxItems} :
        \A j, k \in 1..Len(d) : j # k => d[j].p # d[k].p}

InitMerge ==
    /\ FetchIdle
    /\ relExists = TRUE
    /\ ExtractIdle
    /\ PluginIdle
    /\ LocalIdle
    /\ SelectIdle
    /\ ListingIdle
    /\ UpdateIdle
    /\ mcall \in [props : UNION {[1..n -> CallerProps] : n \in 0..MaxCaller},
                  items : Descriptors]
    /\ mpc = "start"
    /\ mout = <<>>

\* __fetch_plugin_props__ makes the list; a prop that does not split into
\* a key and a value ends it with a ValueError.
create_props ==
    /\ mpc = "start"
    /\ mout' = fetch_plugin_props_result(mcall.props, mcall.items)
    /\ mpc' = IF mout' = ValueError THEN "raised" ELSE "returned"
    /\ UNCHANGED <<mcall, fetchVars, extractVars, pluginVars, localVars,
                   selectVars, listVars, updateVars>>

NextMerge == create_props

SpecMerge == InitMerge /\ [][NextMerge]_vars

(***************************************************************************)
(*                           fetch_update                                  *)
(* The patch to the latest level: devfs is mounted on the new root, the    *)
(* host's resolv.conf is copied in, freebsd-update.sh is downloaded and    *)
(* run, resolv.conf is removed again and devfs is unmounted.               *)
(***************************************************************************)

\* The return codes of freebsd-update's fetch.
ReturnCodes == {0, 1}

\* The install step follows a fetch that returned 0.
installs(returncode) == returncode = 0

\* A fetch_update call: its cli argument, whether the new root has
\* etc/freebsd-update.conf, and how the steps go: the mount, the copy of
\* resolv.conf, the download of the script, the script's fetch, the
\* removal of resolv.conf.
InitUpdate ==
    /\ FetchIdle
    /\ relExists = TRUE
    /\ ExtractIdle
    /\ PluginIdle
    /\ LocalIdle
    /\ SelectIdle
    /\ ListingIdle
    /\ MergeIdle
    /\ ucall \in [cli : BOOLEAN, conf : BOOLEAN, mount_ok : BOOLEAN,
                  copy_ok : BOOLEAN, urlopen_ok : BOOLEAN,
                  returncode : ReturnCodes, resolv_there : BOOLEAN]
    /\ upc = "mount"
    /\ umnt = FALSE
    /\ ulog = <<>>

URaise(e) == upc' = "raised" /\ ulog' = Append(ulog, e)

\* mount -t devfs devfs <new_root>/dev; the command's status is not looked
\* at.
update_mount ==
    /\ upc = "mount"
    /\ umnt' = ucall.mount_ok
    /\ ulog' = Append(ulog, "mount")
    /\ upc' = "copy"
    /\ UNCHANGED <<ucall, fetchVars, extractVars, pluginVars, localVars,
                   selectVars, listVars, mergeVars>>

\* shutil.copy("/etc/resolv.conf", <new_root>/etc/resolv.conf).
update_resolv_conf ==
    /\ upc = "copy"
    /\ IF ucall.copy_ok
       THEN upc' = "patch" /\ ulog' = Append(ulog, "copy")
       ELSE URaise("OSError")
    /\ UNCHANGED <<ucall, umnt, fetchVars, extractVars, pluginVars,
                   localVars, selectVars, listVars, mergeVars>>

\* With etc/freebsd-update.conf in the new root the script is downloaded
\* and run: fetch, and install when fetch returned 0.
update_patch ==
    /\ upc = "patch"
    /\ IF ~ucall.conf
       THEN upc' = "umount" /\ UNCHANGED ulog
       ELSE IF ~ucall.urlopen_ok
       THEN URaise("URLError")
       ELSE /\ upc' = "umount"
            /\ ulog' = ulog \o <<"fetch">> \o
                       (IF installs(ucall.returncode)
                        THEN <<"install">> ELSE <<>>)
    /\ UNCHANGED <<ucall, umnt, fetchVars, extractVars, pluginVars,
                   localVars, selectVars, listVars, mergeVars>>

\* resolv.conf is removed from a release's root, an OSError of the removal
\* is passed over, and devfs is unmounted.
update_umount ==
    /\ upc = "umount"
    /\ umnt' = FALSE
    /\ ulog' = (IF ~ucall.cli /\ ucall.resolv_there
                THEN Append(ulog, "remove") ELSE ulog) \o <<"umount">>
    /\ upc' = "done"
    /\ UNCHANGED <<ucall, fetchVars, extractVars, pluginVars, localVars,
                   selectVars, listVars, mergeVars>>

NextUpdate ==
    \/ update_mount
    \/ update_resolv_conf
    \/ update_patch
    \/ update_umount

SpecUpdate == InitUpdate /\ [][NextUpdate]_vars

(***************************************************************************)
(*                     CLAIMS ABOUT THE RELEASE FETCH                      *)
(***************************************************************************)

\* A step that calls fetch_extract.
Extracting == \E f \in Archives : extracted'[f] = extracted[f] + 1

\* The states in which __fetch_check__ is about to begin.
AtCheckEntry == pc = "check" \/ (pc = "dl" /\ i > Len(list))

\* C1: retry bound. Within one fetch no file is downloaded more than twice
\* and no file fails more than two verification passes; a file found absent
\* or with the wrong digest in the first pass and again in the second ends
\* the fetch with "Too many failed verifications!".
C1_RetryBound ==
    \A f \in Range(Files) :
        /\ dlCount[f] <= 2
        /\ failCount[f] <= 2
        /\ failCount[f] = 2 =>
               pc = "error" /\ error = "Too many failed verifications!"

\* C1 witness: a file downloaded twice that failed both passes.
C1_Witness ==
    \E f \in Archives :
        dlCount[f] = 2 /\ failCount[f] = 2 /\ pc = "error"

\* C2: fetch_extract is called only while every required file is present
\* and matches the manifest.
C2_ExtractOnlyWhenAllVerified ==
    [][Extracting => DatasetMatches(dlExists, disk, files, hardened)]_vars

\* C9 as stated: a fetch of a named release whose download dataset exists
\* and matches the manifest issues no network request at all.
C9_NoNetworkAtAll == startGood => net = {}

\* C9 amended: such a fetch downloads no file and does not fetch MANIFEST
\* again; the requests it still makes are the index request or the
\* FTP connection (always, once past fetch_release), the EOL page and the
\* patch script.
C9_NoDownloadWhenVerified ==
    startGood =>
        /\ dlCount = Zero
        /\ net \subseteq {"eol", "index", "ftp", "patch"}
        /\ pc \in {"download", "check", "chk", "update", "done"} =>
               net \cap {"index", "ftp"} # {}

\* C9 witness: a finished fetch on a matching dataset that made requests
\* but downloaded nothing.
C9_Witness ==
    startGood /\ pc = "done" /\ dlCount = Zero /\ "patch" \in net

\* C10: a verification pass that begins on a dataset holding MANIFEST and
\* every required file with its manifest digest makes no network request,
\* leaves the dataset as it is, raises no error and returns the empty
\* missing list; this holds for every pass of every run, so also when the
\* pass is run again on the same dataset.
C10_VerificationIdempotent ==
    /\ [](goodAtEntry =>
            /\ missing = <<>>
            /\ error = ""
            /\ pc \in {"chk", "update", "done"})
    /\ [][AtCheckEntry /\ DatasetMatches(dlExists, disk, files, hardened) =>
            /\ net' = net
            /\ dlCount' = dlCount
            /\ pc' = "chk"]_vars
    /\ [][pc = "chk" /\ goodAtEntry =>
            /\ disk' = disk
            /\ net' = net]_vars

\* C10 witness: the second run's pass returning the empty list on a
\* dataset that matched when the run began.
C10_Witness ==
    /\ runs = 2 /\ startGood /\ goodAtEntry
    /\ pc = "chk" /\ i > Len(files) /\ missing = <<>>

\* The files a fetch needs on disk: MANIFEST and the files it verifies.
Required == {"MANIFEST"} \cup Verified(files, hardened)

\* The fetch has come back from its verification passes.
Returned == pc \in {"update", "done"}

\* The server answered every request of this run so far with a file that
\* matches the manifest.
ServerGood == ~hist.bad

C13_MismatchIsCorrupt ==
    [][(/\ pc = "chk" /\ ~pass /\ i <= Len(files)
        /\ files[i] \in Verified(files, hardened)
        /\ files[i] \in Range(list)
        /\ disk[files[i]] # "absent"
        /\ Verify(files[i], disk) # "ok")
       => (missing' = Append(missing, files[i]) /\ pc' = "chk")]_vars

\* C14: a verification pass that begins with MANIFEST absent from the
\* download dataset fetches MANIFEST from the server, whatever the server.
C14_ManifestRefetched ==
    [][(AtCheckEntry /\ dlExists /\ disk["MANIFEST"] = "absent")
       => (/\ "manifest" \in net'
           /\ dlCount'["MANIFEST"] = dlCount["MANIFEST"] + 1)]_vars

\* C15: an HTTP error on a file of the first download does not end the
\* fetch.
C15_TransportErrorRetried ==
    [][(pc = "dl" /\ http /\ ~pass) => pc' # "error"]_vars

\* C16: repair. A fetch that began on an existing download dataset (any
\* files absent or corrupt, MANIFEST absent or the right one), reached its
\* download phase and got a matching file for every request: downloads
\* nothing before the first pass has named the missing files, downloads
\* only files that pass found absent or wrong, does not fail, and returns
\* with every required file present, verified and extracted.
C16_Repair ==
    (/\ hist.existed /\ ServerGood
     /\ hist.manifest0 \in {"absent", "m_full"}
     /\ RdirBound(args.server, args.hardened)) =>
        /\ pc # "error"
        /\ ~pass => \A f \in Archives : dlCount[f] = 0
        /\ \A f \in Archives : dlCount[f] <= failCount[f]
        /\ Returned =>
               /\ disk["MANIFEST"] # "absent"
               /\ \A f \in Verified(files, hardened) :
                      extracted[f] >= 1 /\ Verify(f, disk) = "ok"

\* The same with MANIFEST on disk from the start: the repair the code does
\* carry out.
RepairWithManifest ==
    (/\ hist.existed /\ ServerGood
     /\ hist.manifest0 = "m_full"
     /\ RdirBound(args.server, args.hardened)) =>
        /\ pc # "error"
        /\ ~pass => \A f \in Archives : dlCount[f] = 0
        /\ \A f \in Archives : dlCount[f] <= failCount[f]
        /\ Returned =>
               \A f \in Verified(files, hardened) :
                   extracted[f] >= 1 /\ Verify(f, disk) = "ok"

\* C17: an FTP download step whose file the server does not have either
\* ends the fetch with "<file> is required!" (base.txz, MANIFEST) or takes
\* exactly that file out of self.files; no other step of the download
\* changes self.files.
C17_FtpDropsOneFile ==
    [][(pc = "dl" /\ ~http /\ i <= Len(list)) =>
          /\ pc' = "error" =>
                 /\ list[i] \in {"base.txz", "MANIFEST"}
                 /\ error' = list[i] \o " is required!"
          /\ \/ files' = files
             \/ /\ list[i] \notin {"base.txz", "MANIFEST"}
                /\ files' = SelectSeq(files, LAMBDA x : x # list[i])]_vars

(***************************************************************************)
(*                   CLAIMS ABOUT THE ARCHIVE INSTALLER                    *)
(***************************************************************************)

\* A member name under "./": it starts with "./" and no segment of it is "..".
UnderDot(n) ==
    startswith(n, <<".", "/">>) /\ <<".", ".">> \notin Range(split(n))

\* The first half of C3 alone: an archive holding ../../etc/passwd ends in
\* the error and nothing of it is written.
RejectedBeforeWrite ==
    name_passwd \in Range(tar) =>
        /\ written = {}
        /\ xpc # "done"

\* C3: path safety. An archive holding the member ../../etc/passwd ends in
\* an error with no member written; an archive whose members are all under
\* "./" is extracted without error, every member into the release root.
C3_PathSafety ==
    /\ RejectedBeforeWrite
    /\ (xpc \in {"done", "error"} /\ \A k \in 1..Len(tar) : UnderDot(tar[k])) =>
           /\ xpc = "done"
           /\ \A k \in 1..Len(tar) :
                  Resolve(path_join(dest, tar[k])) \in written

\* C4: fetch_extract removes, creates and overwrites paths inside the
\* release root only.
C4_NothingOutsideTouched ==
    \A p \in removed \cup written : InsideDest(p)

\* The extraction itself (C4 without the removal pass) writes inside the
\* release root only.
WritesInsideOnly == \A p \in written : InsideDest(p)

(***************************************************************************)
(*                  CLAIMS ABOUT THE PLUGIN PROVISIONER                    *)
(***************************************************************************)

\* C5: no failed fetch_plugin run ends with the environment it created
\* still existing: when an error leaves fetch_plugin the jail is destroyed.
C5_FailureDestroysJail ==
    ppc \in {"raised", "exited"} => jail # "created"

\* C6 as stated: a KeyboardInterrupt in any of the calls from
\* __fetch_plugin_props__ to __fetch_plugin_post_install__ leads to
\* destroy_jail and to exit status 1.
C6_InterruptFromProps ==
    pout.interrupted \in {"props", "create", "install", "post"} =>
        /\ pout.destroy_calls >= 1
        /\ ppc = "exited" /\ pout.exit = 1

\* C6 amended: a KeyboardInterrupt in __fetch_plugin_create__,
\* __fetch_plugin_install_packages__ or __fetch_plugin_post_install__ leads
\* to destroy_jail and to exit status 1; one in __fetch_plugin_props__,
\* where no jail has been created yet, leaves fetch_plugin uncaught and
\* without a destroy_jail call.
C6_InterruptInTry ==
    /\ pout.interrupted \in {"create", "install", "post"} =>
           /\ pout.destroy_calls >= 1
           /\ ppc = "exited" /\ pout.exit = 1
    /\ pout.interrupted = "props" =>
           /\ pout.destroy_calls = 0
           /\ ~pout.create_called
           /\ ppc = "raised" /\ pout.error = "KeyboardInterrupt"

\* C6 witness: an interrupt during package installation, destroy_jail
\* called and the process exited with status 1.
C6_Witness ==
    /\ pout.interrupted = "install" /\ pout.destroy_calls = 1
    /\ ppc = "exited" /\ pout.exit = 1

\* The answer was y or Y.
Agreed == pout.agree \in {"y", "Y"}

\* C7: for a plugin with a license, __fetch_plugin_create__ is called only
\* if accept_license was given or the operator answered y or Y, whatever
\* num is.
C7_LicenseAnyNum ==
    (plugin.license /\ pout.create_called) =>
        (plugin.accept_license \/ Agreed)

\* What the code does keep: for num <= 1 and a plugin with a license,
\* create is called only if accept_license was given or the operator
\* answered y or Y, and any other answer ends fetch_plugin with the fatal
\* error before create; for num > 1 the license is never asked for.
LicenseFirstCall ==
    /\ (plugin.num <= 1 /\ plugin.license /\ ~plugin.accept_license) =>
           /\ pout.create_called => Agreed
           /\ (pout.agree # "unasked" /\ ~Agreed) =>
                  /\ ppc = "raised"
                  /\ pout.error = "You must accept the license to continue!"
           /\ ppc \in {"props", "create", "install", "post", "done"} => Agreed
    /\ plugin.num > 1 => pout.agree = "unasked"

\* The operator answered Y at the first call of a licensed plugin and the
\* jail was created.
LicenseAccepted ==
    /\ plugin.num <= 1 /\ plugin.license /\ ~plugin.accept_license
    /\ pout.agree = "Y" /\ jail = "created"

\* C8: when package installation returned an error, it is reported and
\* the artifact is not cloned and post_install.sh is not run.
C8_PkgErrorStopsPostInstall ==
    pout.pkg_err => pout.pkg_msg /\ ~pout.cloned /\ ~pout.post_ran

(***************************************************************************)
(*              CLAIMS ABOUT THE FETCH FROM A LOCAL DIRECTORY              *)
(***************************************************************************)

\* The error names the directory the file is expected in.
NamesLocation == \E f \in Range(Files) : error = RequiredMessage(f)

\* C11: a local-directory fetch whose source directory lacks MANIFEST fails
\* with an error that names <root_dir>/<release>, and when it fails there
\* is no download or release dataset that was not there before the call.
C11_MissingManifestFailsClean ==
    (/\ lsrc.dir /\ lsrc.has["MANIFEST"] = "absent"
     /\ lpc \in {"done", "error"}) =>
        /\ lpc = "error"
        /\ NamesLocation
        /\ dlExists => lsrc.dl0
        /\ relExists => lsrc.rel0

\* What the code does keep: the fetch fails and the error names the
\* directory; with MANIFEST first in self.files no dataset made by the call
\* is left when it fails.
MissingManifestFails ==
    (/\ lsrc.dir /\ lsrc.has["MANIFEST"] = "absent"
     /\ lpc \in {"done", "error"}) =>
        /\ lpc = "error"
        /\ NamesLocation
        /\ files[1] = "MANIFEST" =>
               /\ error = RequiredMessage("MANIFEST")
               /\ ~dlExists
               /\ relExists = lsrc.rel0

(***************************************************************************)
(*                    CLAIMS ABOUT RELEASE SELECTION                       *)
(***************************************************************************)

\* C18: while self.hardened is true the backend in use is HTTP: no run
\* lists or downloads over FTP, or copies from a local directory, with
\* hardened true.
C18_HardenedUsesHttp == shard => strans \in {"none", "http"}

\* What __init__ alone guarantees: a run that is hardened from the start
\* never uses another backend than HTTP.
HardenedArgUsesHttp == sin.hardened => strans \in {"none", "http"}

\* __fetch_validate_release__ has just run on the typed input.
Validated ==
    /\ spc # "off" /\ ~sin.named
    /\ \/ spc \in {"fetch", "exit"}
       \/ /\ spc = "error"
          /\ serr \in {"is not in list", "is not in the list!",
                       "Please select an item!"}

\* The typed input is neither an index, nor a listed name, nor exit.
Unparsable ==
    /\ ~is_int(sin.typed)
    /\ sin.typed \notin Range(sin.releases)
    /\ str_lower(sin.typed) # <<"e", "x", "i", "t">>

HostRelease == fetch_host_release(sin.uname)

\* The host's release can be fetched: it is of the -STABLE kind or it is
\* in the listing.
HostAcceptable ==
    contains(HostRelease, dash_STABLE) \/ HostRelease \in Range(sin.releases)

\* C19 as stated: an input of any length that is neither an index nor a
\* listed name resolves to the host's own release.
C19_HostFallbackAnyLength ==
    (Validated /\ Unparsable /\ HostAcceptable) =>
        spc = "fetch" /\ srel = HostRelease

\* C19 amended: such an input of at most two characters resolves to the
\* host's own release when that is of the -STABLE kind (hardened is
\* switched on) or in the listing, and is refused with "Please select an
\* item!" otherwise; such an input of more than two characters is refused
\* with an error and never resolves to the host's release.
C19_HostFallbackShortInput ==
    (Validated /\ Unparsable) =>
        IF Len(sin.typed) <= 2
        THEN IF HostAcceptable
             THEN /\ spc = "fetch" /\ srel = HostRelease
                  /\ contains(HostRelease, dash_STABLE) => shard
             ELSE spc = "error" /\ serr = "Please select an item!"
        ELSE spc = "error" /\ serr = "is not in list"

\* C19 witness: the empty input resolved to the host's release 11.2-RELEASE,
\* which is in the listing.
C19_Witness ==
    /\ Validated /\ sin.typed = <<>> /\ spc = "fetch"
    /\ srel = HostRelease /\ srel = <<"1", "1", ".", "2", "-", "R", "E", "L", "E", "A", "S", "E">>

\* C20: a numeric input n selects the release listed with index n when
\* 0 <= n < len(releases), and any other numeric input is refused with an
\* error and selects nothing.
C20_IndexSelectsListed ==
    (Validated /\ is_int(sin.typed)) =>
        IF /\ 0 <= int_value(sin.typed)
           /\ int_value(sin.typed) < Len(sin.releases)
        THEN spc = "fetch" /\ srel = sin.releases[int_value(sin.typed) + 1]
        ELSE spc = "error"

\* What the code does keep: an index of one or two digits within the
\* listing selects the release shown with it.
ListedIndexSelects ==
    (/\ Validated /\ is_int(sin.typed)
     /\ 0 <= int_value(sin.typed)
     /\ int_value(sin.typed) < Len(sin.releases)) =>
        spc = "fetch" /\ srel = sin.releases[int_value(sin.typed) + 1]

(***************************************************************************)
(*                    CLAIMS ABOUT THE RELEASE LISTING                     *)
(***************************************************************************)

\* The marker of a backend's entries.
Marker(backend) ==
    IF backend = "hardened" THEN STABLE_marker ELSE RELEASE_marker

OnlyMarked(releases, backend) ==
    \A k \in 1..Len(releases) : contains(releases[k], Marker(backend))

NoneTwice(releases) ==
    \A j, k \in 1..Len(releases) : j # k => releases[j] # releases[k]

\* C21: for every backend that lists releases (FTP, HTTP, hardened HTTP),
\* the list shown and passed to __fetch_validate_release__ holds only
\* entries that include the release marker and holds no entry twice,
\* whatever the server returns.
C21_ListingFilteredUnique ==
    kpc = "shown" =>
        OnlyMarked(kout, kin.backend) /\ NoneTwice(kout)

\* The list of the HTTP backend outside the hardened lineage has only
\* marked entries, each once.
HttpListingFilteredUnique ==
    kpc = "shown" /\ kin.backend = "http" =>
        OnlyMarked(kout, kin.backend) /\ NoneTwice(kout)

\* The FTP list has only marked names, the hardened list has no entry twice.
FtpMarkedHardenedUnique ==
    /\ kpc = "shown" /\ kin.backend = "ftp" => OnlyMarked(kout, "ftp")
    /\ kpc = "shown" /\ kin.backend = "hardened" => NoneTwice(kout)

(***************************************************************************)
(*                 CLAIMS ABOUT THE PLUGIN'S RELEASE                       *)
(***************************************************************************)

\* C22: whenever fetch_plugin calls __fetch_plugin_create__, the release
\* the descriptor asks for is there under <iocroot>/releases, for every
\* descriptor: also one without properties, also one of a release 9.x or
\* lower.
C22_ReleaseBeforeCreate ==
    [][fetch_plugin_create => relExists]_vars

\* The release is there at the call for a descriptor that has properties
\* and for one of a release from 10.0 on.
ReleaseBeforeCreateChecked ==
    [][fetch_plugin_create
       /\ (plugin.properties > 0 \/ ~below_ten(plugin.release))
       => relExists]_vars

(***************************************************************************)
(*               CLAIMS ABOUT THE PLUGIN'S PROPERTY LIST                   *)
(***************************************************************************)

CallerKeys == {key_of(mcall.props[k]) : k \in 1..Len(mcall.props)}
OwnKeys == {key_of(own_props[k]) : k \in 1..Len(own_props)}

\* In the list, for every key of Keys that the caller and the descriptor
\* both give, there are only the caller's props.
CallerValueOnly(Keys) ==
    \A j \in 1..Len(mcall.items) :
        LET k == mcall.items[j].p IN
        k \in CallerKeys \cap Keys =>
            \A n \in 1..Len(mout) :
                key_of(mout[n]) = k => mout[n] \in Range(mcall.props)

\* Every item of the descriptor whose key the caller did not give is in the
\* list with the descriptor's value, and every prop of the caller is in it
\* as it was given.
OthersKept ==
    /\ \A j \in 1..Len(mcall.items) :
          mcall.items[j].p \notin CallerKeys =>
              item_prop(mcall.items[j]) \in Range(mout)
    /\ \A k \in 1..Len(mcall.props) : mcall.props[k] \in Range(mout)

\* C23: in the list __fetch_plugin_props__ returns, for every key given
\* both by the caller and by the descriptor's properties only the caller's
\* value appears; every descriptor property whose key the caller did not
\* give appears with the descriptor's value; every caller property appears
\* unchanged.
C23_CallerWins ==
    mpc = "returned" =>
        CallerValueOnly(ItemKeys \cup CallerKeys) /\ OthersKept

\* The same holds for the keys the function does not set itself.
CallerWinsOutsideOwn ==
    mpc = "returned" =>
        CallerValueOnly((ItemKeys \cup CallerKeys) \ OwnKeys) /\ OthersKept

(***************************************************************************)
(*                 CLAIMS ABOUT THE PLUGIN'S ADDRESS                       *)
(***************************************************************************)

\* The jail has been created and its configuration has no address.
CreatedWithoutAddress ==
    /\ pout.create_called
    /\ pout.addr[1] = none /\ pout.addr[2] = none /\ pout.addr[3] # "on"

\* C24: after __fetch_plugin_create__ has created the jail, if its
\* configuration has ip4_addr "none", ip6_addr "none" and dhcp not "on",
\* the jail is destroyed and then a fatal error is raised, so package
\* installation and post-install never run for a jail without an address.
C24_NoAddressDestroysJail ==
    CreatedWithoutAddress =>
        /\ jail = "destroyed"
        /\ pout.destroy_calls = 1
        /\ ppc = "raised"
        /\ pout.error = "Destroyed partial plugin."
        /\ ~pout.pkg_err /\ ~pout.cloned /\ ~pout.post_ran

C24_Witness ==
    CreatedWithoutAddress /\ jail = "destroyed" /\ ppc = "raised"

(***************************************************************************)
(*                       CLAIMS ABOUT fetch_update                         *)
(***************************************************************************)

\* C25: once devfs has been mounted on the new root it is unmounted before
\* fetch_update ends, whether the patch tool succeeds, returns a non-zero
\* status, or a step between mount and unmount (the copy of resolv.conf,
\* the download of the script, its execution) fails.
C25_UnmountedAtEnd ==
    upc \in {"done", "raised"} => ~umnt

\* devfs is unmounted when fetch_update returns, whatever the patch tool
\* returned.
UnmountedOnReturn ==
    upc = "done" => ~umnt /\ ulog[Len(ulog)] = "umount"

(***************************************************************************)
(*               CLAIMS ABOUT THE PATCH AND THE RE-FETCH                   *)
(***************************************************************************)

\* C26: fetch_update runs at the end of a successful fetch exactly when the
\* update option is on and the lineage is not hardened, for every backend;
\* with update off no fetch runs it.
C26_UpdateWhenAsked ==
    pc = "done" => (updateRan <=> (args.update /\ ~hardened))

\* Over FTP fetch_update runs exactly when update is on; over HTTP it runs
\* exactly when the lineage is not hardened.
UpdatePerBackend ==
    pc = "done" =>
        IF http THEN updateRan <=> ~hardened ELSE updateRan <=> args.update

\* A fetch from a local directory never runs fetch_update.
LocalNeverUpdates == lpc = "done" => ~updateRan

\* C27: once a release has been fetched successfully, a later fetch of the
\* same release whose download dataset still passes verification leaves
\* the release dataset unchanged: no fetch_extract runs, which would remove
\* files of the release root and extract an archive into it.
C27_RefetchLeavesRelease ==
    hist.refetch /\ startGood => extracted = Zero

\* Such a fetch downloads no file.
RefetchDownloadsNothing ==
    hist.refetch /\ startGood => dlCount = Zero

(***************************************************************************)
(*               CLAIMS ABOUT THE PLUGIN'S REPOSITORIES                    *)
(***************************************************************************)

Declared == Range(plugin.fingerprints)

\* Every declared repository has its repo config file.
ConfPerRepo == \A repo \in Declared : repo.name \in pout.repo_confs

\* C28: after __fetch_plugin_install_packages__ has written the repository
\* files, every repository declared in the descriptor's fingerprints has
\* one repo config file and one fingerprint file, and the fingerprint file
\* holds every (function, fingerprint) pair declared for it, in the order
\* of declaration.
C28_FingerprintsWritten ==
    pout.wrote =>
        /\ ConfPerRepo
        /\ \A repo \in Declared :
              /\ [repo |-> repo.name,
                  file |-> [exists |-> TRUE, pairs |-> repo.pairs]]
                    \in pout.trusted
              /\ Cardinality({t \in pout.trusted : t.repo = repo.name}) = 1

\* Every declared repository has its repo config file, and the fingerprint
\* file of a repository that declares pairs holds the last of them.
LastFingerprintWritten ==
    pout.wrote =>
        /\ ConfPerRepo
        /\ \A repo \in Declared :
              repo.pairs # <<>> =>
                  [repo |-> repo.name,
                   file |-> [exists |-> TRUE,
                             pairs |-> <<repo.pairs[Len(repo.pairs)]>>]]
                    \in pout.trusted

(***************************************************************************)
(*                  CLAIMS ABOUT IOCAGE_PLUGIN_IP                          *)
(***************************************************************************)

\* The jail has a static address in its configuration.
HasStatic ==
    static_ip(pout.addr[1]) # none \/ static_ip(pout.addr[2]) # none

\* The plugin's address: the static one, or the one the interface has got.
ResolvedAddress ==
    IF HasStatic
    THEN plugin_ip(static_ip(pout.addr[1]), static_ip(pout.addr[2]))
    ELSE ifconfig_inet

\* C29: at the moment post_install.sh is executed in the jail,
\* IOCAGE_PLUGIN_IP already holds the plugin's resolved address, both when
\* the address is static and when it is obtained by DHCP.
C29_AddressExportedBeforeScript ==
    pout.post_ran => pout.script_env = ResolvedAddress

\* With a static address the script sees it; with DHCP the address is
\* exported once the script has run without an error.
AddressExportedStaticOrAfter ==
    /\ pout.post_ran /\ HasStatic => pout.script_env = ResolvedAddress
    /\ pout.post_ran /\ ppc = "done" => pout.env = ResolvedAddress

(***************************************************************************)
(*                 CLAIMS ABOUT THE CHECK OF THE MEMBERS                   *)
(***************************************************************************)

\* C30: __fetch_check_members__ hands on to extraction every member whose
\* name starts with "./" and has no path segment equal to "..", and skips
\* every member whose name has a ".." segment or does not start with "./";
\* the member named "." is skipped.
C30_MembersUnderDotAccepted ==
    [][fetch_check_members => member' = SelectSeq(member, UnderDot)]_vars

\* Every member handed on starts with "./" and has no ".." segment, and "."
\* is not handed on.
HandedOnAreUnderDot ==
    [][fetch_check_members =>
         \A k \in 1..Len(member') :
             UnderDot(member'[k]) /\ member'[k] # dot]_vars

(***************************************************************************)
(*                  CLAIMS ABOUT THE SECOND PASS AND LIB32                 *)
(***************************************************************************)

\* The second pass of __fetch_check__ has gone through self.files.
SecondPassOver == pass /\ pc = "chk" /\ i > Len(files)

HardenedArgSkipsLib32 ==
    hardened =>
        /\ dlCount["lib32.txz"] = 0
        /\ failCount["lib32.txz"] = 0
        /\ extracted["lib32.txz"] = 0
        /\ "lib32.txz" \notin Range(missing)

ExportedWithBoth ==
    /\ ppc \in {"done", "raised"} /\ pout.env # unset
    /\ static_ip(pout.addr[1]) # none
    /\ static_ip(pout.addr[2]) # none

\* C33: with a static IPv4 address and a static IPv6 address, the address
\* exported as IOCAGE_PLUGIN_IP is the IPv6 one.
C33_BothStaticExportsIPv6 ==
    ExportedWithBoth => pout.env = static_ip(pout.addr[2])

\* What the code does with both: the IPv4 address is exported.
BothStaticExportsIPv4 ==
    ExportedWithBoth => pout.env = static_ip(pout.addr[1])

(***************************************************************************)
(*                       CLAIMS ABOUT EXTRACTION                           *)
(***************************************************************************)

\* C34: in a fetch that returns without error, each file that is in the
\* required set at the end and is not MANIFEST (nor lib32.txz for the
\* hardened lineage) has been extracted exactly once.
C34_ExtractedExactlyOnce ==
    pc = "done" => \A f \in Verified(files, hardened) : extracted[f] = 1

\* What the two passes give: each such file is extracted once, or twice when
\* it was extracted in the first pass before another file failed.
ExtractedOnceOrTwice ==
    pc = "done" =>
        \A f \in Verified(files, hardened) :
            /\ extracted[f] \in {1, 2}
            /\ extracted[f] = 2 => pass

\* C35: for every backend, an archive is extracted into the release dataset
\* only after its digest has been compared with its MANIFEST entry during
\* the same fetch and found equal.
C35_ExtractedOnlyVerified ==
    \A f \in Range(Files) : extracted[f] > 0 => f \in hist.verified

\* The local-directory backend compares no digest at all.
LocalVerifiesNothing == lpc # "off" => hist.verified = {}

\* A local-directory fetch has failed on a file that is not in the source
\* directory.
FailedOnAbsentFile ==
    lpc = "error" /\ \E f \in Range(Files) : error = RequiredMessage(f)

\* C36: a local-directory fetch that fails because a required file is absent
\* from the source directory leaves the datasets as they were: a download
\* dataset that was there before the call is still there with its contents,
\* and the failed call has extracted no archive into the release dataset.
C36_FailedLocalFetchLeavesDatasets ==
    FailedOnAbsentFile =>
        /\ lsrc.dl0 => dlExists /\ disk = lsrc.disk0
        /\ extracted = Zero

\* What the code does on that failure: the download dataset is gone,
\* whether or not it was there before the call.
FailedLocalFetchDeletesDownload ==
    FailedOnAbsentFile => ~dlExists /\ "download" \in ldel

(***************************************************************************)
(*                 CLAIMS ABOUT LISTING AND THE INDEX DIRECTORY            *)
(***************************************************************************)

\* C37: a fetch_release call with _list set only lists releases: it goes
\* on to no copy and no download, creates no dataset and downloads no file,
\* for every backend and whether or not a release was supplied.
C37_ListOnlyLists ==
    sin.list =>
        /\ spc \notin {"copy", "fetch", "download", "check"}
        /\ dlCount = Zero
        /\ disk = IF dlExists THEN FullDisk ELSE NoFile

\* Where _list is honoured: over FTP or non-hardened HTTP, with no release
\* supplied, the call returns after the listing.
ListOnlyWhenUnnamed ==
    (/\ sin.list /\ ~sin.named /\ ~sin.hardened
     /\ sin.http \/ ~sin.file) =>
        /\ spc \in {"start", "index", "listed"}
        /\ dlCount = Zero
        /\ disk = IF dlExists THEN FullDisk ELSE NoFile

\* C38: no HTTP fetch ends in an unbound-variable failure: whenever the
\* hardened branch of fetch_http_release is taken or the hardened root
\* directory is built, rdir has been assigned.
C38_RdirAlwaysAssigned ==
    /\ serr # "UnboundLocalError"
    /\ (strans = "http" /\ shard /\ spc \notin {"start", "index"}) => srdir

\* rdir is assigned exactly for a run that is hardened from the start and
\* uses the default server.
RdirAssignedOnDefaultServer ==
    (strans = "http" /\ spc \notin {"start", "index"}) =>
        (srdir <=> sin.hardened /\ sin.server = DefaultServer)

====
